---- MODULE Spec2Model ----
(***************************************************************************)
(* Model of the Idle Apocalypse event optimiser (rl_agent):                *)
(*   simulation.py  GameSim, the deterministic economy engine              *)
(*   optimizer.py   build_template, simulate, simulated_annealing,         *)
(*                  hill_climb, optimize                                   *)
(*   config.py      EVENT_CONFIG                                           *)
(*                                                                         *)
(* Numbers.  The source computes in Python floats; the model computes in   *)
(* exact integers:                                                         *)
(*   - a speed or damage bonus b (0.25) is held as the percentage 100*b,   *)
(*     and a multiplier m as 100*m (Pct == 100);                           *)
(*   - creature_progress is held in hundredths of a millisecond, so that   *)
(*     spawnTime * multiplier is an integer;                               *)
(*   - total_damage is held in hundredths of a damage point.               *)
(* EVENT_CONFIG of config.py (6 creatures with 10 levels, 5 boosts, a      *)
(* duration of 864 steps of 60 000 ms) is far beyond explicit-state        *)
(* checking, so EVENT_CONFIG below is a configuration of the same schema   *)
(* scaled down: one default-unlocked creature, one locked creature, one    *)
(* boost of each type, small costs and a short duration.                   *)
(***************************************************************************)
EXTENDS Integers, Sequences, FiniteSets, TLC

VARIABLES
    sim,        \* the GameSim object driven directly (engine specifications)
    op,         \* the last GameSim method called on sim: [name, arg]
    ret,        \* what that call returned ("True", "False", "None") or raised
    \* simulate(priority), called twice on the same ordering; it drives sim
    priority,   \* the ordering passed to simulate: a sequence of <<kind, uid>>
    call,       \* how many calls of simulate have started
    ev_pc,      \* "idle", "loop" (at the while test), "advance", "returned"
    counts,     \* simulate's counts: key -> steps of that key consumed
    bought,     \* best_key of the current decision tick (NoKey when None)
    trace,      \* per call, the <<best_key, sim>> of every decision tick so far
    log,        \* run_greedy's log: an entry per purchase so far
    results,    \* the values returned by the finished calls, in order
    \* simulated_annealing(n_iter)
    n_iter,         \* the argument
    sa_pc,          \* "idle", "loop" (at `for i in range(n_iter)`), "returned"
    sa_i,           \* iterations done
    current,        \* the walk's ordering
    current_score,
    nbr,            \* the candidate of the last iteration (<<>> before the first)
    best,           \* the best-ever ordering
    best_score,
    \* optimize(n_iter, n_restarts, hill_climb_passes)
    n_restarts,         \* the argument
    hill_climb_passes,  \* the argument
    opt_pc,             \* "idle", "restarts", "hill", "break", "returned", "TypeError"
    restart,            \* r: restarts done
    pass,               \* p: hill-climb passes done
    global_best,        \* None until a restart's score beats global_best_score
    global_best_score,
    improved,           \* what the last hill_climb call reported ("None" before the first)
    shuffle_scores,     \* per restart so far, the score of its initial shuffle
    restart_results     \* per restart so far, the <<priority, score>> it returned

engineVars == <<sim, op, ret>>
evalVars == <<priority, call, ev_pc, counts, bought, trace, log, results>>
saVars == <<n_iter, sa_pc, sa_i, current, current_score, nbr, best, best_score>>
optVars == <<n_restarts, hill_climb_passes, opt_pc, restart, pass, global_best,
             global_best_score, improved, shuffle_scores, restart_results>>
vars == <<engineVars, evalVars, saVars, optVars>>

(***************************************************************************)
(* Bounds of the model.                                                    *)
(***************************************************************************)
\* advance is not called on the free-running engine once this much time elapsed
MaxTime == 10
\* the largest delta_ms the free-running engine passes to advance
MaxDelta == 3
\* simulate is run on every ordering of at most this many steps (and on every
\* permutation of the template)
MaxOrderLen == 2
\* simulated_annealing is called with n_iter in 0..MaxIter
MaxIter == 1
\* optimize is called with n_restarts in -1..MaxRestarts
MaxRestarts == 1
\* ... and with hill_climb_passes in 0..MaxPasses
MaxPasses == 3
\* restarts of the multi-restart phase taken on its own
MaxPhaseRestarts == 2
\* the largest maxLevel of the configurations build_template is run on
MaxTemplateLevel == 3
\* the longest list the perturbation operators are run on
MaxListLen == 9

(***************************************************************************)
(* config.py                                                               *)
(***************************************************************************)
Pct == 100

\* Python's None, for a cost that is not purchasable.  A cost is a function
\* from the resources it names to amounts (a dict).
None == [none |-> TRUE]

\* how a Python bool returned by a call is recorded
Bool(b) == IF b THEN "True" ELSE "False"

ResourceIds == {"sapphires", "emeralds"}

\* optimizer.py STEP_MS, scaled
STEP_MS == 4
\* the number of STEP_MS steps in EVENT_CONFIG['duration'] (864 in config.py)
DurationSteps == 6

SpeedBoost(bonuses) ==
    [id |-> "champion-speed", type |-> "speed", resource |-> "",
     maxLevel |-> Len(bonuses), bonusByLevel |-> bonuses,
     costs |-> [i \in 1..Len(bonuses) |->
                  IF i = 1 THEN [sapphires |-> 2] ELSE [emeralds |-> 2]]]

Config(speedBonuses) ==
    [duration |-> DurationSteps * STEP_MS,
     resources |-> ResourceIds,
     creatures |-> <<
        [id |-> "fiona", unlockedByDefault |-> TRUE, produces |-> "sapphires",
         spawnTime |-> 3, maxLevel |-> 2,
         productionByLevel |-> <<1, 2>>,
         damageByLevel |-> <<5, 10>>,
         unlockCost |-> None,
         upgradeCosts |-> << [sapphires |-> 2] >>],
        [id |-> "jingles", unlockedByDefault |-> FALSE, produces |-> "emeralds",
         spawnTime |-> 2, maxLevel |-> 2,
         productionByLevel |-> <<1, 2>>,
         damageByLevel |-> <<50, 100>>,
         unlockCost |-> [sapphires |-> 1],
         upgradeCosts |-> << [emeralds |-> 2, sapphires |-> 1] >>] >>,
     boosts |-> <<
        [id |-> "sapphire-boost", type |-> "production-bonus",
         resource |-> "sapphires", maxLevel |-> 1, bonusByLevel |-> <<1>>,
         costs |-> << [emeralds |-> 1] >>],
        SpeedBoost(speedBonuses),
        [id |-> "champion-damage", type |-> "damage", resource |-> "",
         maxLevel |-> 1, bonusByLevel |-> <<25>>,
         costs |-> << [emeralds |-> 2] >>] >>]

EVENT_CONFIG == Config(<<25>>)

\* {}: a cost that names no resource (a free level)
EmptyCost == [r \in {} |-> 0]

\* EVENT_CONFIG with the first level of its first boost free
FreeLevelConfig == [EVENT_CONFIG EXCEPT !.boosts[1].costs[1] = EmptyCost]

\* the contents EVENT_CONFIG can have when simulate reads it
EvalConfigs == {EVENT_CONFIG, FreeLevelConfig}

\* EVENT_CONFIG with a duration in the last step interval of its own and one
\* past it: one of them is a multiple of STEP_MS, the others are not
DurationConfigs ==
    { [EVENT_CONFIG EXCEPT !.duration = d] :
        d \in ((DurationSteps - 1) * STEP_MS + 1)..(DurationSteps * STEP_MS + 1) }

\* EVENT_CONFIG with creatures that deal no damage: every run scores 0
ZeroDamageConfig ==
    [EVENT_CONFIG EXCEPT !.creatures =
        [i \in DOMAIN EVENT_CONFIG.creatures |->
            [EVENT_CONFIG.creatures[i] EXCEPT !.damageByLevel =
                [l \in DOMAIN EVENT_CONFIG.creatures[i].damageByLevel |-> 0]]]]

\* the contents EVENT_CONFIG can have when optimize runs
OptConfigs == {EVENT_CONFIG, ZeroDamageConfig}

\* the contents EVENT_CONFIG can have when run_greedy reads it
GreedyConfigs == EvalConfigs \cup OptConfigs \cup DurationConfigs

\* EVENT_CONFIG with other maxLevel values and other default-unlocked flags:
\* the contents EVENT_CONFIG can have when build_template reads it
TemplateConfigs ==
    { [EVENT_CONFIG EXCEPT
         !.creatures = [i \in DOMAIN EVENT_CONFIG.creatures |->
                          [EVENT_CONFIG.creatures[i] EXCEPT
                              !.maxLevel = cl[i], !.unlockedByDefault = cd[i]]],
         !.boosts = [i \in DOMAIN EVENT_CONFIG.boosts |->
                          [EVENT_CONFIG.boosts[i] EXCEPT !.maxLevel = bl[i]]]] :
        cl \in [DOMAIN EVENT_CONFIG.creatures -> 1..MaxTemplateLevel],
        cd \in [DOMAIN EVENT_CONFIG.creatures -> BOOLEAN],
        bl \in [DOMAIN EVENT_CONFIG.boosts -> 1..(MaxTemplateLevel - 1)] }

\* Configurations a caller can hand to GameSim(config): EVENT_CONFIG's schema
\* with other speed tables, some of them reaching a bonus of 1.0 or more.
AnyConfigs == { Config(b) : b \in {<<25>>, <<25, 50>>, <<50, 100>>, <<150>>} }

(***************************************************************************)
(* simulation.py: GameSim                                                  *)
(***************************************************************************)
CreatureIds(config) == { config.creatures[i].id : i \in DOMAIN config.creatures }
BoostIds(config) == { config.boosts[i].id : i \in DOMAIN config.boosts }

\* self._creatures[cid], self._boosts[bid]
CreatureDef(config, cid) ==
    config.creatures[CHOOSE i \in DOMAIN config.creatures : config.creatures[i].id = cid]
BoostDef(config, bid) ==
    config.boosts[CHOOSE i \in DOMAIN config.boosts : config.boosts[i].id = bid]

reset(config) ==
    [config |-> config,
     resources |-> [r \in config.resources |-> 0],
     creature_unlocked |-> [cid \in CreatureIds(config) |->
                              CreatureDef(config, cid).unlockedByDefault],
     creature_levels |-> [cid \in CreatureIds(config) |->
                              IF CreatureDef(config, cid).unlockedByDefault THEN 1 ELSE 0],
     creature_progress |-> [cid \in CreatureIds(config) |-> 0],
     boost_levels |-> [bid \in BoostIds(config) |-> 0],
     total_damage |-> 0,
     time_elapsed_ms |-> 0]

GameSim(config) == reset(config)

\* The first boost, in configuration order, of the given type (and, for a
\* production bonus, of the given resource) that is owned (level > 0); 0 when
\* there is none.  The loops of the three multiplier helpers return at it.
FirstOwned(s, type, resource_id) ==
    LET hits == { i \in DOMAIN s.config.boosts :
                    /\ s.config.boosts[i].type = type
                    /\ type = "production-bonus" => s.config.boosts[i].resource = resource_id
                    /\ s.boost_levels[s.config.boosts[i].id] > 0 }
    IN IF hits = {} THEN 0 ELSE CHOOSE i \in hits : \A j \in hits : i <= j

BonusAt(s, i) ==
    LET b == s.config.boosts[i] IN b.bonusByLevel[s.boost_levels[b.id]]

\* 100 * (1.0 - bonus)
get_speed_multiplier(s) ==
    LET i == FirstOwned(s, "speed", "")
    IN IF i = 0 THEN Pct ELSE Pct - BonusAt(s, i)

\* 100 * (1.0 + bonus)
get_damage_multiplier(s) ==
    LET i == FirstOwned(s, "damage", "")
    IN IF i = 0 THEN Pct ELSE Pct + BonusAt(s, i)

get_production_bonus(s, resource_id) ==
    LET i == FirstOwned(s, "production-bonus", resource_id)
    IN IF i = 0 THEN 0 ELSE BonusAt(s, i)

\* int(x / y) for x >= 0: Python truncates towards zero
TruncDiv(x, y) == IF y > 0 THEN x \div y ELSE 0 - (x \div (0 - y))

\* (mutant) the accumulator restarts from 0 after a spawn, losing the remainder
AdvanceCreature_drop_remainder(a, i, delta_ms) ==
    LET s == a.sim
        c == s.config.creatures[i]
        cid == c.id
        lv == s.creature_levels[cid]
        spawn_time == c.spawnTime * get_speed_multiplier(s)
        progress == s.creature_progress[cid] + delta_ms * Pct
    IN IF a.raised \/ ~s.creature_unlocked[cid] \/ lv = 0 THEN a
       ELSE IF spawn_time = 0
       THEN [sim |-> [s EXCEPT !.creature_progress[cid] = progress], raised |-> TRUE]
       ELSE LET ticks == TruncDiv(progress, spawn_time)
                prod == c.productionByLevel[lv] + get_production_bonus(s, c.produces)
                dmg == c.damageByLevel[lv] * get_damage_multiplier(s)
            IN [sim |-> [s EXCEPT
                    !.creature_progress[cid] = IF ticks = 0 THEN progress ELSE 0,
                    !.resources[c.produces] = @ + prod * ticks,
                    !.total_damage = @ + dmg * ticks],
                raised |-> FALSE]

\* (mutant) `if progress >= spawn_time:` spawns once, however long the step
AdvanceCreature_single_tick(a, i, delta_ms) ==
    LET s == a.sim
        c == s.config.creatures[i]
        cid == c.id
        lv == s.creature_levels[cid]
        spawn_time == c.spawnTime * get_speed_multiplier(s)
        progress == s.creature_progress[cid] + delta_ms * Pct
    IN IF a.raised \/ ~s.creature_unlocked[cid] \/ lv = 0 THEN a
       ELSE IF spawn_time = 0
       THEN [sim |-> [s EXCEPT !.creature_progress[cid] = progress], raised |-> TRUE]
       ELSE LET ticks == IF progress >= spawn_time THEN 1 ELSE 0
                prod == c.productionByLevel[lv] + get_production_bonus(s, c.produces)
                dmg == c.damageByLevel[lv] * get_damage_multiplier(s)
            IN [sim |-> [s EXCEPT
                    !.creature_progress[cid] = progress - ticks * spawn_time,
                    !.resources[c.produces] = @ + prod * ticks,
                    !.total_damage = @ + dmg * ticks],
                raised |-> FALSE]

\* (mutant) `self.total_damage = ...` in place of `self.total_damage += ...`
AdvanceCreature_damage_assigned(a, i, delta_ms) ==
    LET s == a.sim
        c == s.config.creatures[i]
        cid == c.id
        lv == s.creature_levels[cid]
        spawn_time == c.spawnTime * get_speed_multiplier(s)
        progress == s.creature_progress[cid] + delta_ms * Pct
    IN IF a.raised \/ ~s.creature_unlocked[cid] \/ lv = 0 THEN a
       ELSE IF spawn_time = 0
       THEN [sim |-> [s EXCEPT !.creature_progress[cid] = progress], raised |-> TRUE]
       ELSE LET ticks == TruncDiv(progress, spawn_time)
                prod == c.productionByLevel[lv] + get_production_bonus(s, c.produces)
                dmg == c.damageByLevel[lv] * get_damage_multiplier(s)
            IN [sim |-> [s EXCEPT
                    !.creature_progress[cid] = progress - ticks * spawn_time,
                    !.resources[c.produces] = @ + prod * ticks,
                    !.total_damage = dmg * ticks],
                raised |-> FALSE]

\* One iteration of advance's loop, for the creature at index i; `a` is
\* [sim, raised].  A zero spawn_time raises ZeroDivisionError after the
\* progress accumulator was increased.
AdvanceCreature(a, i, delta_ms) ==
    LET s == a.sim
        c == s.config.creatures[i]
        cid == c.id
        lv == s.creature_levels[cid]
        spawn_time == c.spawnTime * get_speed_multiplier(s)
        progress == s.creature_progress[cid] + delta_ms * Pct
    IN IF a.raised \/ ~s.creature_unlocked[cid] \/ lv = 0 THEN a
       ELSE IF spawn_time = 0
       THEN [sim |-> [s EXCEPT !.creature_progress[cid] = progress], raised |-> TRUE]
       ELSE LET ticks == TruncDiv(progress, spawn_time)
                prod == c.productionByLevel[lv] + get_production_bonus(s, c.produces)
                dmg == c.damageByLevel[lv] * get_damage_multiplier(s)
            IN [sim |-> [s EXCEPT
                    !.creature_progress[cid] = progress - ticks * spawn_time,
                    !.resources[c.produces] = @ + prod * ticks,
                    !.total_damage = @ + dmg * ticks],
                raised |-> FALSE]

\* `for cid in self._creature_order:` from index i on (the singleton set
\* binds the state after iteration i as one value)
RECURSIVE AdvanceLoop(_, _, _)
AdvanceLoop(a, i, delta_ms) ==
    IF i > Len(a.sim.config.creatures) THEN a
    ELSE CHOOSE r \in { AdvanceLoop(b, i + 1, delta_ms) :
                          b \in {AdvanceCreature(a, i, delta_ms)} } : TRUE

\* (mutant) the clock is not moved
advance_no_clock(s, delta_ms) ==
    CHOOSE r \in { a : a \in {AdvanceLoop([sim |-> s, raised |-> FALSE], 1, delta_ms)} } : TRUE

\* advance(delta_ms): [sim, raised]; time_elapsed_ms grows unless the loop raised
advance(s, delta_ms) ==
    CHOOSE r \in { IF a.raised THEN a
                   ELSE [a EXCEPT !.sim.time_elapsed_ms = @ + delta_ms] :
                   a \in {AdvanceLoop([sim |-> s, raised |-> FALSE], 1, delta_ms)} } : TRUE

\* (mutant) any() in place of all()
can_afford_any(s, cost) ==
    IF cost = None THEN FALSE
    ELSE \E r \in DOMAIN cost : s.resources[r] >= cost[r]

can_afford(s, cost) ==
    IF cost = None THEN FALSE
    ELSE \A r \in DOMAIN cost : s.resources[r] >= cost[r]

_spend(s, cost) ==
    [s EXCEPT !.resources = [r \in DOMAIN s.resources |->
                               IF r \in DOMAIN cost THEN s.resources[r] - cost[r]
                               ELSE s.resources[r]]]

get_creature_upgrade_cost(s, cid) ==
    LET c == CreatureDef(s.config, cid)
        lv == s.creature_levels[cid]
    IN IF ~s.creature_unlocked[cid] THEN c.unlockCost
       ELSE IF lv >= c.maxLevel THEN None
       ELSE c.upgradeCosts[lv]

\* (mutant) the cost is debited before affordability is checked
upgrade_creature_spend_first(s, cid) ==
    LET cost == get_creature_upgrade_cost(s, cid) IN
    IF cost = None THEN [sim |-> s, ret |-> FALSE]
    ELSE LET t == _spend(s, cost) IN
         IF ~can_afford(s, cost) THEN [sim |-> t, ret |-> FALSE]
         ELSE [sim |-> IF ~t.creature_unlocked[cid]
                       THEN [t EXCEPT !.creature_unlocked[cid] = TRUE,
                                      !.creature_levels[cid] = 1]
                       ELSE [t EXCEPT !.creature_levels[cid] = @ + 1],
               ret |-> TRUE]

\* (mutant) an unlock sets the flag and leaves the level at 0
upgrade_creature_no_level(s, cid) ==
    LET cost == get_creature_upgrade_cost(s, cid) IN
    IF cost = None \/ ~can_afford(s, cost) THEN [sim |-> s, ret |-> FALSE]
    ELSE LET t == _spend(s, cost) IN
         [sim |-> IF ~t.creature_unlocked[cid]
                  THEN [t EXCEPT !.creature_unlocked[cid] = TRUE]
                  ELSE [t EXCEPT !.creature_levels[cid] = @ + 1],
          ret |-> TRUE]

\* upgrade_creature(cid): [sim, ret]
upgrade_creature(s, cid) ==
    LET cost == get_creature_upgrade_cost(s, cid) IN
    IF cost = None \/ ~can_afford(s, cost) THEN [sim |-> s, ret |-> FALSE]
    ELSE LET t == _spend(s, cost) IN
         [sim |-> IF ~t.creature_unlocked[cid]
                  THEN [t EXCEPT !.creature_unlocked[cid] = TRUE,
                                 !.creature_levels[cid] = 1]
                  ELSE [t EXCEPT !.creature_levels[cid] = @ + 1],
          ret |-> TRUE]

\* (mutant) at max level the last cost is returned instead of None
get_boost_upgrade_cost_clamped(s, bid) ==
    LET b == BoostDef(s.config, bid)
        lv == s.boost_levels[bid]
    IN IF lv >= b.maxLevel THEN b.costs[b.maxLevel] ELSE b.costs[lv + 1]

get_boost_upgrade_cost(s, bid) ==
    LET b == BoostDef(s.config, bid)
        lv == s.boost_levels[bid]
    IN IF lv >= b.maxLevel THEN None ELSE b.costs[lv + 1]

\* upgrade_boost(bid): [sim, ret]
upgrade_boost(s, bid) ==
    LET cost == get_boost_upgrade_cost(s, bid) IN
    IF cost = None \/ ~can_afford(s, cost) THEN [sim |-> s, ret |-> FALSE]
    ELSE [sim |-> [_spend(s, cost) EXCEPT !.boost_levels[bid] = @ + 1],
          ret |-> TRUE]

\* (mutant) > in place of >=
is_done_strict(s) == s.time_elapsed_ms > s.config.duration

is_done(s) == s.time_elapsed_ms >= s.config.duration

(***************************************************************************)
(* optimizer.py: the priority list and simulate                            *)
(*                                                                         *)
(* A step of a priority list is (kind, uid, display_name) in the source;   *)
(* the name is a function of uid and is read by simulate_with_log only, so *)
(* a step is <<kind, uid>> here, which is also its pos_map key.            *)
(* Positions are 0-based, as in the source.                                *)
(***************************************************************************)
\* best_key = None
NoKey == <<"None", "None">>

Repeat(x, n) == [i \in 1..n |-> x]

\* `for c in EVENT_CONFIG['creatures']:` from index i on, when EVENT_CONFIG
\* holds config
RECURSIVE CreatureStepsOn(_, _)
CreatureStepsOn(config, i) ==
    IF i > Len(config.creatures) THEN <<>>
    ELSE LET c == config.creatures[i]
             n == IF ~c.unlockedByDefault THEN c.maxLevel ELSE c.maxLevel - 1
         IN Repeat(<<"creature", c.id>>, n) \o CreatureStepsOn(config, i + 1)

\* `for b in EVENT_CONFIG.get('boosts', []):` from index i on
RECURSIVE BoostStepsOn(_, _)
BoostStepsOn(config, i) ==
    IF i > Len(config.boosts) THEN <<>>
    ELSE LET b == config.boosts[i]
         IN Repeat(<<"boost", b.id>>, b.maxLevel) \o BoostStepsOn(config, i + 1)

\* (mutant) the boosts are laid out before the creatures
build_template_on_boosts_first(config) ==
    BoostStepsOn(config, 1) \o CreatureStepsOn(config, 1)

\* build_template() when EVENT_CONFIG holds config
build_template_on(config) == CreatureStepsOn(config, 1) \o BoostStepsOn(config, 1)

CreatureSteps(i) == CreatureStepsOn(EVENT_CONFIG, i)

BoostSteps(i) == BoostStepsOn(EVENT_CONFIG, i)

build_template == CreatureSteps(1) \o BoostSteps(1)

\* every (kind, uid) of the configuration
AllKeys == { <<"creature", cid>> : cid \in CreatureIds(EVENT_CONFIG) }
           \cup { <<"boost", bid>> : bid \in BoostIds(EVENT_CONFIG) }

\* how many steps of `seq` have the key
CountOf(seq, key) == Cardinality({ i \in DOMAIN seq : seq[i] = key })

\* the orderings that random.shuffle can make of the template
TemplatePermutations ==
    LET n == Len(build_template)
    IN { q \in [1..n -> AllKeys] :
           \A key \in AllKeys : CountOf(q, key) = CountOf(build_template, key) }

\* the increasing sequence of the positions (0-based) at which key occurs
RECURSIVE PositionsFrom(_, _, _)
PositionsFrom(seq, key, i) ==
    IF i > Len(seq) THEN <<>>
    ELSE (IF seq[i] = key THEN <<i - 1>> ELSE <<>>) \o PositionsFrom(seq, key, i + 1)

_build_pos_map(seq) ==
    [key \in { seq[i] : i \in DOMAIN seq } |-> PositionsFrom(seq, key, 1)]

\* the keys of pos_map in the order pos_map.items() yields them: a dict keeps
\* insertion order, which is the order of first occurrence in the list
RECURSIVE KeyOrderFrom(_, _)
KeyOrderFrom(seq, i) ==
    IF i > Len(seq) THEN <<>>
    ELSE (IF \E j \in 1..(i - 1) : seq[j] = seq[i] THEN <<>> ELSE <<seq[i]>>)
         \o KeyOrderFrom(seq, i + 1)

\* `if cost`: None and the empty dict are falsy
Truthy(cost) == cost # None /\ DOMAIN cost # {}

UpgradeCost(s, key) ==
    IF key[1] = "creature" THEN get_creature_upgrade_cost(s, key[2])
    ELSE get_boost_upgrade_cost(s, key[2])

\* (mutant) `if cost:` without the can_afford test
ScanKey_cost_only(s, pos_map, cnts, key, found) ==
    LET c == cnts[key]
        positions == pos_map[key]
    IN IF c >= Len(positions) THEN found
       ELSE LET p == positions[c + 1] IN
            IF p >= found.pos THEN found
            ELSE LET cost == UpgradeCost(s, key) IN
                 IF Truthy(cost)
                 THEN [pos |-> p, key |-> key]
                 ELSE found

\* One iteration of the scan `for key, positions in pos_map.items()`;
\* found is [pos, key].
ScanKey(s, pos_map, cnts, key, found) ==
    LET c == cnts[key]
        positions == pos_map[key]
    IN IF c >= Len(positions) THEN found
       ELSE LET p == positions[c + 1] IN
            IF p >= found.pos THEN found
            ELSE LET cost == UpgradeCost(s, key) IN
                 IF Truthy(cost) /\ can_afford(s, cost)
                 THEN [pos |-> p, key |-> key]
                 ELSE found

RECURSIVE ScanFrom(_, _, _, _, _, _)
ScanFrom(s, pos_map, cnts, order, i, found) ==
    IF i > Len(order) THEN found
    ELSE CHOOSE r \in { ScanFrom(s, pos_map, cnts, order, i + 1, f) :
                          f \in {ScanKey(s, pos_map, cnts, order[i], found)} } : TRUE

\* the scan of one decision tick: [pos, key], key = NoKey when nothing is bought
SelectBest(s, seq, cnts) ==
    CHOOSE r \in { ScanFrom(s, pos_map, cnts, order, 1, [pos |-> Len(seq), key |-> NoKey]) :
                     pos_map \in {_build_pos_map(seq)}, order \in {KeyOrderFrom(seq, 1)} } : TRUE

UpgradeKey(s, key) ==
    IF key[1] = "creature" THEN upgrade_creature(s, key[2])
    ELSE upgrade_boost(s, key[2])

\* (mutant) `while` in place of `if best_key is not None`: after a purchase
\* the tick scans and purchases once more
simulate_decide_again(st, seq) ==
    CHOOSE d \in {
        IF best_key = NoKey
        THEN [sim |-> st.sim, counts |-> st.counts, key |-> NoKey, ret |-> "None"]
        ELSE CHOOSE r \in {
                 CHOOSE q \in {
                     IF second = NoKey
                     THEN [sim |-> u.sim, counts |-> cnts, key |-> best_key,
                           ret |-> IF u.ret THEN "True" ELSE "False"]
                     ELSE [sim |-> UpgradeKey(u.sim, second).sim,
                           counts |-> [cnts EXCEPT ![second] = @ + 1],
                           key |-> second,
                           ret |-> "True"]
                     : second \in {SelectBest(u.sim, seq, cnts).key} } : TRUE
                 : u \in {UpgradeKey(st.sim, best_key)},
                   cnts \in {[st.counts EXCEPT ![best_key] = @ + 1]} } : TRUE
        : best_key \in {SelectBest(st.sim, seq, st.counts).key} } : TRUE

\* `if best_key is not None:` upgrade and count; st is [sim, counts];
\* the result adds key (best_key) and ret (what the upgrade call returned)
simulate_decide(st, seq) ==
    CHOOSE d \in {
        IF best_key = NoKey
        THEN [sim |-> st.sim, counts |-> st.counts, key |-> NoKey, ret |-> "None"]
        ELSE CHOOSE r \in {
                 [sim |-> u.sim,
                  counts |-> [st.counts EXCEPT ![best_key] = @ + 1],
                  key |-> best_key,
                  ret |-> IF u.ret THEN "True" ELSE "False"] :
                 u \in {UpgradeKey(st.sim, best_key)} } : TRUE
        : best_key \in {SelectBest(st.sim, seq, st.counts).key} } : TRUE

\* (mutant) the simulation object of the previous call is used again
simulate_sim_reused(previous) == previous

\* `sim = GameSim(EVENT_CONFIG)`: every call of simulate builds its own
\* engine, whatever engine an earlier call left behind
simulate_sim(previous) == GameSim(EVENT_CONFIG)

\* the body of `while not sim.is_done()` run to the end; st is [sim, counts]
RECURSIVE simulate_loop(_, _)
simulate_loop(st, seq) ==
    IF is_done(st.sim) THEN st.sim.total_damage
    ELSE LET d == simulate_decide(st, seq) IN
         simulate_loop([sim |-> advance(d.sim, STEP_MS).sim, counts |-> d.counts], seq)

\* simulate(priority) -> total damage (in hundredths)
simulate(seq) ==
    simulate_loop([sim |-> GameSim(EVENT_CONFIG),
                   counts |-> [key \in DOMAIN _build_pos_map(seq) |-> 0]], seq)

\* simulate(priority) when EVENT_CONFIG holds config
simulate_on(config, seq) ==
    simulate_loop([sim |-> GameSim(config),
                   counts |-> [key \in DOMAIN _build_pos_map(seq) |-> 0]], seq)

\* all sequences over AllKeys of length <= n
RECURSIVE SeqsUpTo(_)
SeqsUpTo(n) ==
    IF n = 0 THEN {<<>>}
    ELSE LET shorter == SeqsUpTo(n - 1)
         IN shorter \cup { Append(q, key) : q \in { x \in shorter : Len(x) = n - 1 },
                                            key \in AllKeys }

\* the orderings simulate is run on
Orderings == SeqsUpTo(MaxOrderLen) \cup TemplatePermutations

(***************************************************************************)
(* evaluate.py: _score_upgrade                                             *)
(***************************************************************************)
\* Exact fractions [num, den], den > 0, for the floats of get_dps and of the
\* score
RECURSIVE Gcd(_, _)
Gcd(x, y) == IF y = 0 THEN x ELSE Gcd(y, x % y)

\* num / den in lowest terms
Rat(num, den) ==
    LET g == Gcd(IF num < 0 THEN 0 - num ELSE num, den)
    IN [num |-> num \div g, den |-> den \div g]

RatAdd(x, y) == Rat(x.num * y.den + y.num * x.den, x.den * y.den)
RatSub(x, y) == Rat(x.num * y.den - y.num * x.den, x.den * y.den)
\* x * n / d for integers n and d > 0
RatScale(x, n, d) ==
    LET a == Rat(x.num, d)
        b == Rat(n, x.den)
    IN Rat(a.num * b.num, a.den * b.den)

\* get_dps(): the sum over the active creatures, from index i on, of
\* get_creature_damage(cid) / (get_effective_spawn_time(c) / 1000.0)
RECURSIVE DpsFrom(_, _)
DpsFrom(s, i) ==
    IF i > Len(s.config.creatures) THEN [num |-> 0, den |-> 1]
    ELSE LET c == s.config.creatures[i]
             lv == s.creature_levels[c.id]
         IN IF ~s.creature_unlocked[c.id] \/ lv = 0 THEN DpsFrom(s, i + 1)
            ELSE RatAdd(RatScale(Rat(c.damageByLevel[lv] * get_damage_multiplier(s),
                                     c.spawnTime * get_speed_multiplier(s)), 1000, 1),
                        DpsFrom(s, i + 1))

get_dps(s) == DpsFrom(s, 1)

\* sum(cost.values())
RECURSIVE CostSum(_, _)
CostSum(cost, rs) ==
    IF rs = {} THEN 0
    ELSE LET r == CHOOSE x \in rs : TRUE IN cost[r] + CostSum(cost, rs \ {r})

\* the attributes of a GameSim that hold a dict, and those of them that
\* _score_upgrade rebinds to a copy on sim2 after copy.copy(sim_orig)
DictFields ==
    {"resources", "creature_levels", "creature_unlocked", "creature_progress", "boost_levels"}

\* (mutant) `sim2.resources = dict(sim_orig.resources)` is missing
CopiedFields_no_resources == {"creature_levels", "creature_unlocked", "boost_levels"}

CopiedFields == {"resources", "creature_levels", "creature_unlocked", "boost_levels"}

\* sim_orig once sim2 has become `after`: copy.copy is shallow, so a dict
\* that was not rebound is one object seen from both; numbers assigned on
\* sim2 are sim2's own
SeenFromOriginal(sim_orig, after) ==
    [f \in DOMAIN sim_orig |->
        IF f \in DictFields \ CopiedFields THEN after[f] ELSE sim_orig[f]]

\* the float a call returns, written num/den
ScoreString(x) == ToString(x.num) \o "/" \o ToString(x.den)

\* _score_upgrade(sim_orig, kind, uid, time_remaining_ms):
\* [sim (sim_orig after the call), ret (the score, or None)]
_score_upgrade(sim_orig, kind, uid, time_remaining_ms) ==
    LET cost == UpgradeCost(sim_orig, <<kind, uid>>) IN
    IF cost = None \/ ~can_afford(sim_orig, cost)
    THEN [sim |-> sim_orig, ret |-> None]
    ELSE LET current_dps == get_dps(sim_orig)
             sim2 == UpgradeKey(sim_orig, <<kind, uid>>).sim
             dps_gain == RatSub(get_dps(sim2), current_dps)
             values == CostSum(cost, DOMAIN cost)
             total_cost == IF values = 0 THEN 1 ELSE values
         IN [sim |-> SeenFromOriginal(sim_orig, sim2),
             ret |-> RatScale(dps_gain, time_remaining_ms, 1000 * total_cost)]

(***************************************************************************)
(* optimizer.py: simulate_with_log                                         *)
(***************************************************************************)
\* the third component of a step, c['name'] / b['name'] of the configuration
NameOf(uid) ==
    CASE uid = "fiona" -> "Feral Fiona"
      [] uid = "jingles" -> "Jingles"
      [] uid = "sapphire-boost" -> "Sapphire Boost"
      [] uid = "champion-speed" -> "Champion Speed"
      [] uid = "champion-damage" -> "Champion Damage"

\* name_map = {(kind, uid): name for kind, uid, name in priority}
name_map(seq) == [key \in { seq[i] : i \in DOMAIN seq } |-> NameOf(key[2])]

\* milliseconds in an hour: t_h = sim.time_elapsed_ms / 3_600_000
MS_PER_HOUR == 3600000

\* the f-strings of the log (the arrow is written ->)
Label(kind, name, lv) ==
    IF kind = "creature"
    THEN IF lv = 1 THEN "Unlock " \o name
         ELSE "Upgrade " \o name \o " -> Lv" \o ToString(lv)
    ELSE "Buy " \o name \o " Lv" \o ToString(lv)

\* (mutant) the purchase is logged but counts[best_key] is left alone
with_log_decide_no_count(st, seq) ==
    CHOOSE d \in {
        IF best_key = NoKey THEN st
        ELSE CHOOSE r \in {
                 [sim |-> u.sim,
                  counts |-> st.counts,
                  log |-> Append(st.log,
                                 [time_h |-> t_h,
                                  action |-> Label(best_key[1], name_map(seq)[best_key],
                                                   IF best_key[1] = "creature"
                                                   THEN u.sim.creature_levels[best_key[2]]
                                                   ELSE u.sim.boost_levels[best_key[2]])])] :
                 u \in {UpgradeKey(st.sim, best_key)},
                 t_h \in {Rat(st.sim.time_elapsed_ms, MS_PER_HOUR)} } : TRUE
        : best_key \in {SelectBest(st.sim, seq, st.counts).key} } : TRUE

\* one decision of simulate_with_log (its scan is the scan of simulate, line
\* for line): t_h is read before the upgrade, lv after it; st is
\* [sim, counts, log]
with_log_decide(st, seq) ==
    CHOOSE d \in {
        IF best_key = NoKey THEN st
        ELSE CHOOSE r \in {
                 [sim |-> u.sim,
                  counts |-> [st.counts EXCEPT ![best_key] = @ + 1],
                  log |-> Append(st.log,
                                 [time_h |-> t_h,
                                  action |-> Label(best_key[1], name_map(seq)[best_key],
                                                   IF best_key[1] = "creature"
                                                   THEN u.sim.creature_levels[best_key[2]]
                                                   ELSE u.sim.boost_levels[best_key[2]])])] :
                 u \in {UpgradeKey(st.sim, best_key)},
                 t_h \in {Rat(st.sim.time_elapsed_ms, MS_PER_HOUR)} } : TRUE
        : best_key \in {SelectBest(st.sim, seq, st.counts).key} } : TRUE

\* the body of `while not sim.is_done()` run to the end
RECURSIVE with_log_loop(_, _)
with_log_loop(st, seq) ==
    IF is_done(st.sim)
    THEN [damage |-> st.sim.total_damage, log |-> st.log, sim |-> st.sim]
    ELSE CHOOSE r \in { with_log_loop([d EXCEPT !.sim = advance(d.sim, STEP_MS).sim], seq) :
                          d \in {with_log_decide(st, seq)} } : TRUE

\* simulate_with_log(priority) -> [damage, log, sim]
simulate_with_log(seq) ==
    with_log_loop([sim |-> GameSim(EVENT_CONFIG),
                   counts |-> [key \in DOMAIN _build_pos_map(seq) |-> 0],
                   log |-> <<>>], seq)

(***************************************************************************)
(* evaluate.py: run_greedy                                                 *)
(***************************************************************************)
\* evaluate.py STEP_MS (half of optimizer.py's), scaled
GREEDY_STEP_MS == 2

\* x > y for fractions
RatGreater(x, y) == x.num * y.den > y.num * x.den

\* `for c in creatures:` then `for b in boosts:`, as one list of keys
ConfigKeys(config) ==
    [i \in DOMAIN config.creatures |-> <<"creature", config.creatures[i].id>>]
        \o [i \in DOMAIN config.boosts |-> <<"boost", config.boosts[i].id>>]

\* (mutant) >= in place of >: the last of the best-scoring items wins
GreedyScanKey_or_equal(st, key, time_rem) ==
    CHOOSE f \in {
        IF r.ret # None /\ ~RatGreater(st.best_score, r.ret)
        THEN [sim |-> r.sim, best_score |-> r.ret, best_key |-> key]
        ELSE [st EXCEPT !.sim = r.sim]
        : r \in {_score_upgrade(st.sim, key[1], key[2], time_rem)} } : TRUE

\* the body of either for loop: `if s is not None and s > best_score`;
\* st is [sim, best_score, best_key]
GreedyScanKey(st, key, time_rem) ==
    CHOOSE f \in {
        IF r.ret # None /\ RatGreater(r.ret, st.best_score)
        THEN [sim |-> r.sim, best_score |-> r.ret, best_key |-> key]
        ELSE [st EXCEPT !.sim = r.sim]
        : r \in {_score_upgrade(st.sim, key[1], key[2], time_rem)} } : TRUE

RECURSIVE GreedyScanFrom(_, _, _, _)
GreedyScanFrom(st, keys, i, time_rem) ==
    IF i > Len(keys) THEN st
    ELSE CHOOSE r \in { GreedyScanFrom(f, keys, i + 1, time_rem) :
                          f \in {GreedyScanKey(st, keys[i], time_rem)} } : TRUE

\* the f-strings of run_greedy's log (the arrow is written ->)
GreedyLabel(kind, name, lv) ==
    IF kind = "creature" THEN "Upgrade " \o name \o " -> Lv" \o ToString(lv)
    ELSE "Buy " \o name \o " Lv" \o ToString(lv)

\* one pass of `while not sim.is_done()` up to the advance: the two scans,
\* then the purchase of the best item and its log entry;
\* the result is [sim, log, key, ret]
greedy_decide(s, entries) ==
    CHOOSE d \in {
        IF found.best_key = NoKey
        THEN [sim |-> found.sim, log |-> entries, key |-> NoKey, ret |-> "None"]
        ELSE CHOOSE r \in {
                 [sim |-> u.sim,
                  log |-> Append(entries,
                                 [time_h |-> Rat(u.sim.time_elapsed_ms, MS_PER_HOUR),
                                  action |-> GreedyLabel(found.best_key[1],
                                                         NameOf(found.best_key[2]),
                                                         IF found.best_key[1] = "creature"
                                                         THEN u.sim.creature_levels[found.best_key[2]]
                                                         ELSE u.sim.boost_levels[found.best_key[2]])]),
                  key |-> found.best_key,
                  ret |-> IF u.ret THEN "True" ELSE "False"] :
                 u \in {UpgradeKey(found.sim, found.best_key)} } : TRUE
        : found \in {GreedyScanFrom([sim |-> s, best_score |-> Rat(0 - 1, 1),
                                     best_key |-> NoKey],
                                    ConfigKeys(s.config), 1,
                                    s.config.duration - s.time_elapsed_ms)} } : TRUE

(***************************************************************************)
(* optimizer.py: simulated_annealing                                       *)
(***************************************************************************)
\* simulate(q) for every permutation q of the template, computed once and
\* kept as an explicit table (@@ makes one of the function)
ScoreTable == [q \in TemplatePermutations |-> simulate(q)] @@ <<>>

\* simulate(q), looked up when q is in the table
Score(q) == IF q \in DOMAIN ScoreTable THEN ScoreTable[q] ELSE simulate(q)

\* the same table for each of OptConfigs
ScoreTables ==
    [config \in OptConfigs |->
        ([q \in TemplatePermutations |-> simulate_on(config, q)] @@ <<>>)] @@ <<>>

ScoreOn(config, q) == ScoreTables[config][q]

\* (mutant) the second assignment reads the element already overwritten
Swap_overwrite(seq, a, b) ==
    [i \in DOMAIN seq |-> IF i = a + 1 THEN seq[b + 1] ELSE seq[i]]

\* nbr[a], nbr[b] = nbr[b], nbr[a]   (a, b 0-based)
Swap(seq, a, b) ==
    [i \in DOMAIN seq |-> IF i = a + 1 THEN seq[b + 1]
                          ELSE IF i = b + 1 THEN seq[a + 1]
                          ELSE seq[i]]

\* list.pop(a): the list without its element at index a
Pop(seq, a) == SubSeq(seq, 1, a) \o SubSeq(seq, a + 2, Len(seq))

\* list.insert(b, item): item goes before index b, at the end when b >= len
Insert(seq, b, item) ==
    LET k == IF b > Len(seq) THEN Len(seq) ELSE b
    IN SubSeq(seq, 1, k) \o <<item>> \o SubSeq(seq, k + 1, Len(seq))

\* item = nbr.pop(a); nbr.insert(b, item)
Relocate(seq, a, b) == Insert(Pop(seq, a), b, seq[a + 1])

\* b = min(a + length, n); nbr[a:b] = nbr[a:b][::-1]
ReverseSlice(seq, a, length) ==
    LET n == Len(seq)
        b == IF a + length < n THEN a + length ELSE n
    IN [i \in DOMAIN seq |-> IF a + 1 <= i /\ i <= b THEN seq[a + b + 1 - i] ELSE seq[i]]

\* random.randint(2, min(8, n))
ReverseLengths(n) == 2..(IF n < 8 THEN n ELSE 8)

\* What `random.random() < math.exp(delta / (temp * max(current_score, 1e6)))`
\* can be when delta <= 0: random() is in [0, 1), so the test is True when
\* delta = 0 (exp(0) = 1.0) and either way when delta < 0.
BoltzmannOutcomes(delta) == IF delta = 0 THEN {TRUE} ELSE BOOLEAN

\* (mutant) best-ever follows every accepted candidate
sa_accept_best_follows(w, cand, nbr_score, boltzmann) ==
    LET delta == nbr_score - w.current_score IN
    IF delta > 0 \/ boltzmann
    THEN [current |-> cand, current_score |-> nbr_score,
          best |-> cand, best_score |-> nbr_score]
    ELSE w

\* (mutant) `if nbr_score >= best_score`
sa_accept_best_on_tie(w, cand, nbr_score, boltzmann) ==
    LET delta == nbr_score - w.current_score IN
    IF delta > 0 \/ boltzmann
    THEN [current |-> cand, current_score |-> nbr_score,
          best |-> IF nbr_score >= w.best_score THEN cand ELSE w.best,
          best_score |-> IF nbr_score >= w.best_score THEN nbr_score ELSE w.best_score]
    ELSE w

\* The acceptance step of one iteration, on w = [current, current_score,
\* best, best_score]; boltzmann is the outcome of the random test.
sa_accept(w, cand, nbr_score, boltzmann) ==
    LET delta == nbr_score - w.current_score IN
    IF delta > 0 \/ boltzmann
    THEN [current |-> cand, current_score |-> nbr_score,
          best |-> IF nbr_score > w.best_score THEN cand ELSE w.best,
          best_score |-> IF nbr_score > w.best_score THEN nbr_score ELSE w.best_score]
    ELSE w

\* What a call simulated_annealing(n_iter) can return: <<best, best_score>>.
\* The walk starts at any shuffle of the template, with best = the shuffle.
\* For n_iter = 0 that is returned.  For n_iter > 0 every iteration can pick
\* the swap of two equal steps of the shuffle (delta = 0, accepted, best is
\* kept), and whatever else the walk does, best is a permutation of the
\* template paired with its score: the set of results is the same.
simulated_annealing(iterations) ==
    {<<q, Score(q)>> : q \in TemplatePermutations}

\* simulated_annealing(n_iter) when EVENT_CONFIG holds config
simulated_annealing_on(config, iterations) ==
    {<<q, ScoreOn(config, q)>> : q \in TemplatePermutations}

(***************************************************************************)
(* optimizer.py: hill_climb, optimize                                      *)
(***************************************************************************)
\* Python None where an ordering is expected
NoOrdering == <<NoKey>>

\* (mutant) `if s >= best_score`
HillBetter_or_equal(b, s, i, j) ==
    IF s >= b.best_score THEN [best_score |-> s, best_i |-> i, best_j |-> j] ELSE b

\* The double loop `for i in range(n): for j in range(i + 1, n)` from (i, j)
\* on; b is [best_score, best_i, best_j].
\* `if s > best_score: best_score = s; best_i, best_j = i, j`
HillBetter(b, s, i, j) ==
    IF s > b.best_score THEN [best_score |-> s, best_i |-> i, best_j |-> j] ELSE b

RECURSIVE HillScan(_, _, _, _)
HillScan(seq, i, j, b) ==
    IF i >= Len(seq) THEN b
    ELSE IF j >= Len(seq) THEN HillScan(seq, i + 1, i + 2, b)
    ELSE HillScan(seq, i, j + 1, HillBetter(b, Score(Swap(seq, i, j)), i, j))

\* (mutant) the best swap is scored but not applied to the returned ordering
HillResult_unswapped(seq, b) ==
    IF b.best_i >= 0
    THEN [priority |-> seq, score |-> b.best_score, improved |-> TRUE]
    ELSE [priority |-> seq, score |-> Score(seq), improved |-> FALSE]

\* what hill_climb returns once the scan has ended with b: [priority, score,
\* improved]; the score of the unimproved ordering is base_score = simulate(priority)
HillResult(seq, b) ==
    IF b.best_i >= 0
    THEN [priority |-> Swap(seq, b.best_i, b.best_j), score |-> b.best_score,
          improved |-> TRUE]
    ELSE [priority |-> seq, score |-> Score(seq), improved |-> FALSE]

hill_climb(seq) ==
    HillResult(seq, HillScan(seq, 0, 1,
                             [best_score |-> Score(seq), best_i |-> -1, best_j |-> -1]))

\* `if score > global_best_score:` after a restart returned (seq, score)
optimize_restart(g, seq, score) ==
    IF score > g.global_best_score
    THEN [global_best |-> seq, global_best_score |-> score]
    ELSE g

\* `global_best, global_best_score, improved = hill_climb(...)` and
\* `if not improved: break`, given what hill_climb returned
optimize_after_pass(h) ==
    [global_best |-> h.priority, global_best_score |-> h.score,
     improved |-> Bool(h.improved),
     pc |-> IF h.improved THEN "hill" ELSE "break"]

\* (mutant) the pass loop without `if not improved: break`
optimize_pass_no_break(g) ==
    IF g.global_best = NoOrdering
    THEN [g EXCEPT !.pc = "TypeError"]
    ELSE [optimize_after_pass(hill_climb(g.global_best)) EXCEPT !.pc = "hill"]

\* The body of one hill-climb pass of optimize, on g = [global_best,
\* global_best_score, improved, pc]: hill_climb(None) raises TypeError at
\* len(priority).
optimize_pass(g) ==
    IF g.global_best = NoOrdering
    THEN [g EXCEPT !.pc = "TypeError"]
    ELSE optimize_after_pass(hill_climb(g.global_best))

(***************************************************************************)
(* The engine driven directly: any sequence of reset, advance,             *)
(* upgrade_creature and upgrade_boost calls on one GameSim.                *)
(***************************************************************************)
\* simulate is not running
EvalIdle ==
    /\ priority = <<>>
    /\ call = 0
    /\ ev_pc = "idle"
    /\ counts = <<>>
    /\ bought = NoKey
    /\ trace = <<>>
    /\ log = <<>>
    /\ results = <<>>

\* simulated_annealing is not running
SAIdle ==
    /\ n_iter = 0
    /\ sa_pc = "idle"
    /\ sa_i = 0
    /\ current = <<>>
    /\ current_score = 0
    /\ nbr = <<>>
    /\ best = <<>>
    /\ best_score = 0

\* optimize is not running
OptIdle ==
    /\ n_restarts = 0
    /\ hill_climb_passes = 0
    /\ opt_pc = "idle"
    /\ restart = 0
    /\ pass = 0
    /\ global_best = NoOrdering
    /\ global_best_score = 0
    /\ improved = "None"
    /\ shuffle_scores = <<>>
    /\ restart_results = <<>>

Init ==
    /\ sim = GameSim(EVENT_CONFIG)
    /\ op = [name |-> "__init__", arg |-> ""]
    /\ ret = "None"
    /\ EvalIdle
    /\ SAIdle
    /\ OptIdle

Reset ==
    /\ sim' = reset(sim.config)
    /\ op' = [name |-> "reset", arg |-> ""]
    /\ ret' = "None"
    /\ UNCHANGED <<evalVars, saVars, optVars>>

Advance ==
    \E delta_ms \in 1..MaxDelta :
        /\ sim.time_elapsed_ms < MaxTime
        \* an advance that raises leaves the clock alone and the accumulator grown
        /\ \A cid \in CreatureIds(sim.config) : sim.creature_progress[cid] < MaxTime * Pct
        /\ LET a == advance(sim, delta_ms) IN
            /\ sim' = a.sim
            /\ ret' = IF a.raised THEN "ZeroDivisionError" ELSE "None"
        /\ op' = [name |-> "advance", arg |-> ToString(delta_ms)]
        /\ UNCHANGED <<evalVars, saVars, optVars>>

UpgradeCreature ==
    \E cid \in CreatureIds(sim.config) :
        /\ LET u == upgrade_creature(sim, cid) IN
            /\ sim' = u.sim
            /\ ret' = Bool(u.ret)
        /\ op' = [name |-> "upgrade_creature", arg |-> cid]
        /\ UNCHANGED <<evalVars, saVars, optVars>>

UpgradeBoost ==
    \E bid \in BoostIds(sim.config) :
        /\ LET u == upgrade_boost(sim, bid) IN
            /\ sim' = u.sim
            /\ ret' = Bool(u.ret)
        /\ op' = [name |-> "upgrade_boost", arg |-> bid]
        /\ UNCHANGED <<evalVars, saVars, optVars>>

Next == Reset \/ Advance \/ UpgradeCreature \/ UpgradeBoost

Spec == Init /\ [][Next]_vars

\* The engine with the what-if scoring of evaluate.py called on it: any
\* creature or boost, scored in whatever state the engine is in, with the
\* time remaining that run_greedy passes.
ScoreUpgrade ==
    \E key \in { <<"creature", cid>> : cid \in CreatureIds(sim.config) }
                \cup { <<"boost", bid>> : bid \in BoostIds(sim.config) } :
    \E r \in {_score_upgrade(sim, key[1], key[2],
                              sim.config.duration - sim.time_elapsed_ms)} :
        /\ sim' = r.sim
        /\ ret' = IF r.ret = None THEN "None" ELSE ScoreString(r.ret)
        /\ op' = [name |-> "_score_upgrade", arg |-> key[2]]
        /\ UNCHANGED <<evalVars, saVars, optVars>>

NextScore == Reset \/ Advance \/ UpgradeCreature \/ UpgradeBoost \/ ScoreUpgrade

SpecScore == Init /\ [][NextScore]_vars

\* build_template() called once, on whatever EVENT_CONFIG holds; the list it
\* returns is kept in priority
InitTemplate ==
    /\ sim \in { GameSim(config) : config \in TemplateConfigs }
    /\ op = [name |-> "__init__", arg |-> ""]
    /\ ret = "None"
    /\ EvalIdle
    /\ SAIdle
    /\ OptIdle

BuildTemplate ==
    /\ ev_pc = "idle"
    /\ priority' = build_template_on(sim.config)
    /\ ev_pc' = "template"
    /\ UNCHANGED <<engineVars, call, counts, bought, trace, log, results, saVars, optVars>>

NextTemplate == BuildTemplate

SpecTemplate == InitTemplate /\ [][NextTemplate]_vars

\* The engine constructed on whatever configuration the caller passes:
\* GameSim.__init__ stores config and calls reset(), nothing else.
InitCfg ==
    /\ sim \in { GameSim(config) : config \in AnyConfigs }
    /\ op = [name |-> "__init__", arg |-> ""]
    /\ ret = "None"
    /\ EvalIdle
    /\ SAIdle
    /\ OptIdle

SpecCfg == InitCfg /\ [][Next]_vars

(***************************************************************************)
(* simulate(priority), called twice in a row on one ordering.              *)
(***************************************************************************)
InitEval ==
    /\ priority \in Orderings
    /\ sim = GameSim(EVENT_CONFIG)
    /\ op = [name |-> "__init__", arg |-> ""]
    /\ ret = "None"
    /\ call = 0
    /\ ev_pc = "idle"
    /\ counts = <<>>
    /\ bought = NoKey
    /\ trace = <<>>
    /\ log = <<>>
    /\ results = <<>>
    /\ SAIdle
    /\ OptIdle

\* simulate is entered: sim, pos_map and counts are built anew
SimulateCall ==
    /\ ev_pc \in {"idle", "returned"}
    /\ call < 2
    /\ call' = call + 1
    /\ sim' = simulate_sim(sim)
    /\ op' = [name |-> "__init__", arg |-> ""]
    /\ ret' = "None"
    /\ counts' = [key \in DOMAIN _build_pos_map(priority) |-> 0]
    /\ bought' = NoKey
    /\ trace' = Append(trace, <<>>)
    /\ ev_pc' = "loop"
    /\ UNCHANGED <<priority, log, results, saVars, optVars>>

\* the while test fails: return sim.total_damage
SimulateReturn ==
    /\ ev_pc = "loop"
    /\ is_done(sim)
    /\ results' = Append(results, sim.total_damage)
    /\ ev_pc' = "returned"
    /\ UNCHANGED <<engineVars, priority, call, counts, bought, trace, log, saVars, optVars>>

\* one decision: the scan, then the purchase of best_key if there is one
SimulateDecide ==
    /\ ev_pc = "loop"
    /\ ~is_done(sim)
    /\ \E d \in {simulate_decide([sim |-> sim, counts |-> counts], priority)} :
        /\ bought' = d.key
        /\ sim' = d.sim
        /\ counts' = d.counts
        /\ IF d.key # NoKey
           THEN /\ ret' = d.ret
                /\ op' = [name |-> IF d.key[1] = "creature"
                                   THEN "upgrade_creature" ELSE "upgrade_boost",
                          arg |-> d.key[2]]
           ELSE UNCHANGED <<op, ret>>
    /\ ev_pc' = "advance"
    /\ UNCHANGED <<priority, call, trace, log, results, saVars, optVars>>

\* sim.advance(STEP_MS), which ends the decision tick
SimulateAdvance ==
    /\ ev_pc = "advance"
    /\ sim' = advance(sim, STEP_MS).sim
    /\ op' = [name |-> "advance", arg |-> ToString(STEP_MS)]
    /\ ret' = "None"
    /\ trace' = [trace EXCEPT ![call] = Append(@, <<bought, sim'>>)]
    /\ ev_pc' = "loop"
    /\ UNCHANGED <<priority, log, call, counts, bought, results, saVars, optVars>>

\* simulate on whatever EVENT_CONFIG holds: the engine is built from the
\* module's configuration object
InitEvalCfg ==
    /\ priority \in Orderings
    /\ sim \in { GameSim(config) : config \in EvalConfigs }
    /\ op = [name |-> "__init__", arg |-> ""]
    /\ ret = "None"
    /\ call = 0
    /\ ev_pc = "idle"
    /\ counts = <<>>
    /\ bought = NoKey
    /\ trace = <<>>
    /\ log = <<>>
    /\ results = <<>>
    /\ SAIdle
    /\ OptIdle

SimulateCallCfg ==
    /\ ev_pc \in {"idle", "returned"}
    /\ call < 2
    /\ call' = call + 1
    /\ sim' = GameSim(sim.config)
    /\ op' = [name |-> "__init__", arg |-> ""]
    /\ ret' = "None"
    /\ counts' = [key \in DOMAIN _build_pos_map(priority) |-> 0]
    /\ bought' = NoKey
    /\ trace' = Append(trace, <<>>)
    /\ ev_pc' = "loop"
    /\ UNCHANGED <<priority, log, results, saVars, optVars>>

NextEvalCfg == SimulateCallCfg \/ SimulateReturn \/ SimulateDecide \/ SimulateAdvance

SpecEvalCfg == InitEvalCfg /\ [][NextEvalCfg]_vars

\* simulate on an EVENT_CONFIG whose duration need not be a multiple of STEP_MS
InitEvalDur ==
    /\ priority \in Orderings
    /\ sim \in { GameSim(config) : config \in DurationConfigs }
    /\ op = [name |-> "__init__", arg |-> ""]
    /\ ret = "None"
    /\ call = 0
    /\ ev_pc = "idle"
    /\ counts = <<>>
    /\ bought = NoKey
    /\ trace = <<>>
    /\ log = <<>>
    /\ results = <<>>
    /\ SAIdle
    /\ OptIdle

SpecEvalDur == InitEvalDur /\ [][NextEvalCfg]_vars

NextEval == SimulateCall \/ SimulateReturn \/ SimulateDecide \/ SimulateAdvance

\* simulate_with_log(priority), called on the ordering simulate has just
\* returned from; what it returns is appended to results
SimulateWithLog ==
    /\ ev_pc = "returned"
    /\ results' = Append(results, simulate_with_log(priority))
    /\ ev_pc' = "logged"
    /\ UNCHANGED <<engineVars, priority, call, counts, bought, trace, log, saVars, optVars>>

NextLog == SimulateCall \/ SimulateReturn \/ SimulateDecide \/ SimulateAdvance
           \/ SimulateWithLog

\* simulate and simulate_with_log side by side on one ordering
SpecLog == InitEval /\ [][NextLog]_vars

(***************************************************************************)
(* run_greedy(), on whatever EVENT_CONFIG holds.                           *)
(***************************************************************************)
InitGreedy ==
    /\ sim \in { GameSim(config) : config \in GreedyConfigs }
    /\ op = [name |-> "__init__", arg |-> ""]
    /\ ret = "None"
    /\ EvalIdle
    /\ SAIdle
    /\ OptIdle

\* run_greedy is entered: sim and log are built
GreedyCall ==
    /\ ev_pc = "idle"
    /\ call' = call + 1
    /\ sim' = GameSim(sim.config)
    /\ op' = [name |-> "__init__", arg |-> ""]
    /\ ret' = "None"
    /\ log' = <<>>
    /\ bought' = NoKey
    /\ trace' = Append(trace, <<>>)
    /\ ev_pc' = "loop"
    /\ UNCHANGED <<priority, counts, results, saVars, optVars>>

\* the scoring scans and the purchase of one pass of the loop
GreedyDecide ==
    /\ ev_pc = "loop"
    /\ ~is_done(sim)
    /\ \E d \in {greedy_decide(sim, log)} :
        /\ bought' = d.key
        /\ sim' = d.sim
        /\ log' = d.log
        /\ IF d.key # NoKey
           THEN /\ ret' = d.ret
                /\ op' = [name |-> IF d.key[1] = "creature"
                                   THEN "upgrade_creature" ELSE "upgrade_boost",
                          arg |-> d.key[2]]
           ELSE UNCHANGED <<op, ret>>
    /\ ev_pc' = "advance"
    /\ UNCHANGED <<priority, call, counts, trace, results, saVars, optVars>>

\* sim.advance(STEP_MS) with evaluate.py's STEP_MS
GreedyAdvance ==
    /\ ev_pc = "advance"
    /\ sim' = advance(sim, GREEDY_STEP_MS).sim
    /\ op' = [name |-> "advance", arg |-> ToString(GREEDY_STEP_MS)]
    /\ ret' = "None"
    /\ trace' = [trace EXCEPT ![call] = Append(@, <<bought, sim'>>)]
    /\ ev_pc' = "loop"
    /\ UNCHANGED <<priority, call, counts, bought, log, results, saVars, optVars>>

\* return sim.total_damage, log, sim
GreedyReturn ==
    /\ ev_pc = "loop"
    /\ is_done(sim)
    /\ results' = Append(results, [damage |-> sim.total_damage, log |-> log, sim |-> sim])
    /\ ev_pc' = "returned"
    /\ UNCHANGED <<engineVars, priority, call, counts, bought, trace, log, saVars, optVars>>

NextGreedy == GreedyCall \/ GreedyDecide \/ GreedyAdvance \/ GreedyReturn

SpecGreedy == InitGreedy /\ [][NextGreedy]_vars

SpecEval == InitEval /\ [][NextEval]_vars

\* simulate is sequential code that keeps running: a step that can be taken
\* is taken
SpecEvalFair ==
    SpecEval /\ WF_vars(SimulateDecide) /\ WF_vars(SimulateAdvance) /\ WF_vars(SimulateReturn)

(***************************************************************************)
(* optimize(n_iter, n_restarts, hill_climb_passes)                         *)
(***************************************************************************)
InitOpt ==
    /\ sim = GameSim(EVENT_CONFIG)
    /\ op = [name |-> "__init__", arg |-> ""]
    /\ ret = "None"
    /\ EvalIdle
    /\ n_iter \in 0..MaxIter
    /\ sa_pc = "idle"
    /\ sa_i = 0
    /\ current = <<>>
    /\ current_score = 0
    /\ nbr = <<>>
    /\ best = <<>>
    /\ best_score = 0
    /\ n_restarts \in (-1)..MaxRestarts
    /\ hill_climb_passes \in 0..MaxPasses
    /\ opt_pc = "idle"
    /\ restart = 0
    /\ pass = 0
    /\ global_best = NoOrdering
    /\ global_best_score = 0
    /\ improved = "None"
    /\ shuffle_scores = <<>>
    /\ restart_results = <<>>

\* optimize is entered: global_best = None, global_best_score = 0.0
OptCall ==
    /\ opt_pc = "idle"
    /\ opt_pc' = "restarts"
    /\ restart' = 0
    /\ global_best' = NoOrdering
    /\ global_best_score' = 0
    /\ UNCHANGED <<engineVars, evalVars, saVars, n_restarts, hill_climb_passes, shuffle_scores,
                   restart_results, pass, improved>>

\* one iteration of `for r in range(n_restarts)`
OptRestart ==
    /\ opt_pc = "restarts"
    /\ restart < n_restarts
    /\ \E result \in simulated_annealing(n_iter) :
         LET g == optimize_restart([global_best |-> global_best,
                                    global_best_score |-> global_best_score],
                                   result[1], result[2])
         IN /\ global_best' = g.global_best
            /\ global_best_score' = g.global_best_score
    /\ restart' = restart + 1
    /\ UNCHANGED <<engineVars, evalVars, saVars, n_restarts, hill_climb_passes, shuffle_scores,
                   restart_results, opt_pc, pass, improved>>

\* range(n_restarts) is exhausted (at once when n_restarts <= 0)
OptRestartsDone ==
    /\ opt_pc = "restarts"
    /\ restart >= n_restarts
    /\ opt_pc' = "hill"
    /\ pass' = 0
    /\ UNCHANGED <<engineVars, evalVars, saVars, n_restarts, hill_climb_passes, shuffle_scores,
                   restart_results, restart,
                   global_best, global_best_score, improved>>

\* one iteration of `for p in range(hill_climb_passes)`
OptHillClimbPass ==
    /\ opt_pc = "hill"
    /\ pass < hill_climb_passes
    /\ \E g \in {optimize_pass([global_best |-> global_best,
                                 global_best_score |-> global_best_score,
                                 improved |-> improved, pc |-> opt_pc])} :
          /\ global_best' = g.global_best
          /\ global_best_score' = g.global_best_score
          /\ improved' = g.improved
          /\ opt_pc' = g.pc
    /\ pass' = pass + 1
    /\ UNCHANGED <<engineVars, evalVars, saVars, n_restarts, hill_climb_passes, shuffle_scores,
                   restart_results, restart>>

\* return global_best, global_best_score
OptReturn ==
    /\ \/ opt_pc = "break"
       \/ opt_pc = "hill" /\ pass >= hill_climb_passes
    /\ opt_pc' = "returned"
    /\ UNCHANGED <<engineVars, evalVars, saVars, n_restarts, hill_climb_passes, shuffle_scores,
                   restart_results, restart, pass,
                   global_best, global_best_score, improved>>

\* The multi-restart phase of optimize on its own, on whatever EVENT_CONFIG
\* holds; it ends where the hill-climb passes begin.
InitRestarts ==
    /\ sim \in { GameSim(config) : config \in OptConfigs }
    /\ op = [name |-> "__init__", arg |-> ""]
    /\ ret = "None"
    /\ EvalIdle
    /\ n_iter \in 1..MaxIter
    /\ sa_pc = "idle"
    /\ sa_i = 0
    /\ current = <<>>
    /\ current_score = 0
    /\ nbr = <<>>
    /\ best = <<>>
    /\ best_score = 0
    /\ n_restarts \in 1..MaxPhaseRestarts
    /\ hill_climb_passes = 0
    /\ opt_pc = "idle"
    /\ restart = 0
    /\ pass = 0
    /\ global_best = NoOrdering
    /\ global_best_score = 0
    /\ improved = "None"
    /\ shuffle_scores = <<>>
    /\ restart_results = <<>>

\* one iteration of `for r in range(n_restarts)`; what the restart returned
\* is recorded
OptRestartOn ==
    /\ opt_pc = "restarts"
    /\ restart < n_restarts
    /\ \E result \in simulated_annealing_on(sim.config, n_iter) :
        \E g \in {optimize_restart([global_best |-> global_best,
                                     global_best_score |-> global_best_score],
                                    result[1], result[2])} :
            /\ global_best' = g.global_best
            /\ global_best_score' = g.global_best_score
            /\ restart_results' = Append(restart_results, result)
    /\ restart' = restart + 1
    /\ UNCHANGED <<engineVars, evalVars, saVars, n_restarts, hill_climb_passes, shuffle_scores,
                   opt_pc, pass, improved>>

NextRestarts == OptCall \/ OptRestartOn \/ OptRestartsDone

SpecRestarts == InitRestarts /\ [][NextRestarts]_vars

NextOpt == OptCall \/ OptRestart \/ OptRestartsDone \/ OptHillClimbPass \/ OptReturn

SpecOpt == InitOpt /\ [][NextOpt]_vars

\* run_sa: optimize, then the replay of the ordering it returned;
\* _build_pos_map(None) raises TypeError
RunSAReplay ==
    /\ opt_pc = "returned"
    /\ IF global_best = NoOrdering
       THEN /\ opt_pc' = "TypeError"
            /\ UNCHANGED results
       ELSE /\ opt_pc' = "replayed"
            /\ results' = Append(results, simulate_with_log(global_best))
    /\ UNCHANGED <<engineVars, priority, call, ev_pc, counts, bought, trace, log, saVars,
                   n_restarts, hill_climb_passes, shuffle_scores, restart_results,
                   restart, pass, global_best, global_best_score, improved>>

NextRunSA == OptCall \/ OptRestart \/ OptRestartsDone \/ OptHillClimbPass \/ OptReturn
             \/ RunSAReplay

SpecRunSA == InitOpt /\ [][NextRunSA]_vars

(***************************************************************************)
(* simulated_annealing(n_iter)                                             *)
(***************************************************************************)
InitSA ==
    /\ sim = GameSim(EVENT_CONFIG)
    /\ op = [name |-> "__init__", arg |-> ""]
    /\ ret = "None"
    /\ EvalIdle
    /\ n_iter \in 0..MaxIter
    /\ sa_pc = "idle"
    /\ sa_i = 0
    /\ current = <<>>
    /\ current_score = 0
    /\ nbr = <<>>
    /\ best = <<>>
    /\ best_score = 0
    /\ OptIdle

\* the initial solution: a random shuffle of the template
SACall ==
    /\ sa_pc = "idle"
    /\ \E shuffled \in TemplatePermutations :
        /\ current' = shuffled
        /\ current_score' = Score(shuffled)
        /\ best' = shuffled
        /\ best_score' = current_score'
    /\ sa_i' = 0
    /\ nbr' = <<>>
    /\ sa_pc' = "loop"
    /\ UNCHANGED <<engineVars, evalVars, optVars, n_iter>>

\* the rest of an iteration, once the operator has made the candidate
SAStep(cand) ==
    /\ sa_pc = "loop"
    /\ sa_i < n_iter
    /\ nbr' = cand
    /\ \E nbr_score \in {Score(cand)} :
       \E boltzmann \in BoltzmannOutcomes(nbr_score - current_score) :
       \E w \in {sa_accept([current |-> current, current_score |-> current_score,
                            best |-> best, best_score |-> best_score],
                           cand, nbr_score, boltzmann)} :
          /\ current' = w.current
          /\ current_score' = w.current_score
          /\ best' = w.best
          /\ best_score' = w.best_score
    /\ sa_i' = sa_i + 1
    /\ UNCHANGED <<engineVars, evalVars, optVars, n_iter, sa_pc>>

\* r < 0.50: a, b = random.sample(range(n), 2)
SASwap ==
    \E a \in 0..(Len(current) - 1), b \in 0..(Len(current) - 1) :
        /\ a # b
        /\ SAStep(Swap(current, a, b))

\* r < 0.85: a = randrange(n), b = randrange(n - 1)
SARelocate ==
    \E a \in 0..(Len(current) - 1), b \in 0..(Len(current) - 2) :
        SAStep(Relocate(current, a, b))

\* else: a = randrange(n), length = randint(2, min(8, n))
SAReverse ==
    \E a \in 0..(Len(current) - 1), length \in ReverseLengths(Len(current)) :
        SAStep(ReverseSlice(current, a, length))

\* return best, best_score
SAReturn ==
    /\ sa_pc = "loop"
    /\ sa_i >= n_iter
    /\ sa_pc' = "returned"
    /\ UNCHANGED <<engineVars, evalVars, optVars, n_iter, sa_i, current, current_score,
                   nbr, best, best_score>>

NextSA == SACall \/ SASwap \/ SARelocate \/ SAReverse \/ SAReturn

SpecSA == InitSA /\ [][NextSA]_vars

(***************************************************************************)
(* The three perturbation operators of simulated_annealing on their own:   *)
(* one operator applied to nbr = list(current), for every list length and  *)
(* every value the random indices can take.  The operators act on          *)
(* positions only, so the elements of current are named by the index they  *)
(* start at; op records the operator and its random numbers.               *)
(***************************************************************************)
RandomNumbers(x, y) == ToString(x) \o "," \o ToString(y)

InitPerturb ==
    /\ sim = GameSim(EVENT_CONFIG)
    /\ op = [name |-> "__init__", arg |-> ""]
    /\ ret = "None"
    /\ EvalIdle
    /\ n_iter = 1
    /\ sa_pc = "loop"
    /\ sa_i = 0
    /\ current \in { [i \in 1..n |-> i - 1] : n \in 2..MaxListLen }
    /\ current_score = 0
    /\ nbr = <<>>
    /\ best = <<>>
    /\ best_score = 0
    /\ OptIdle

\* a, b = random.sample(range(n), 2); nbr[a], nbr[b] = nbr[b], nbr[a]
PerturbSwap ==
    \E a \in 0..(Len(current) - 1), b \in 0..(Len(current) - 1) :
        /\ a # b
        /\ nbr' = Swap(current, a, b)
        /\ op' = [name |-> "swap", arg |-> RandomNumbers(a, b)]
        /\ UNCHANGED <<sim, ret, evalVars, optVars, n_iter, sa_pc, sa_i, current,
                       current_score, best, best_score>>

\* a = random.randrange(n); b = random.randrange(n - 1)
PerturbRelocate ==
    \E a \in 0..(Len(current) - 1), b \in 0..(Len(current) - 2) :
        /\ nbr' = Relocate(current, a, b)
        /\ op' = [name |-> "relocate", arg |-> RandomNumbers(a, b)]
        /\ UNCHANGED <<sim, ret, evalVars, optVars, n_iter, sa_pc, sa_i, current,
                       current_score, best, best_score>>

\* a = random.randrange(n); length = random.randint(2, min(8, n))
PerturbReverse ==
    \E a \in 0..(Len(current) - 1), length \in ReverseLengths(Len(current)) :
        /\ nbr' = ReverseSlice(current, a, length)
        /\ op' = [name |-> "reverse", arg |-> RandomNumbers(a, length)]
        /\ UNCHANGED <<sim, ret, evalVars, optVars, n_iter, sa_pc, sa_i, current,
                       current_score, best, best_score>>

NextPerturb == PerturbSwap \/ PerturbRelocate \/ PerturbReverse

SpecPerturb == InitPerturb /\ [][NextPerturb]_vars

(***************************************************************************)
(* The whole pipeline: optimize with every simulated_annealing call run    *)
(* step by step (the actions of simulated_annealing above), then the       *)
(* hill-climb passes.                                                      *)
(***************************************************************************)
\* `priority, score = simulated_annealing(n_iter=n_iter, ...)` is entered:
\* the restart's initial solution is shuffled and scored
PipeSACall ==
    /\ opt_pc = "restarts"
    /\ restart < n_restarts
    /\ sa_pc = "idle"
    /\ \E shuffled \in TemplatePermutations :
        /\ current' = shuffled
        /\ current_score' = Score(shuffled)
        /\ best' = shuffled
        /\ best_score' = current_score'
    /\ shuffle_scores' = Append(shuffle_scores, current_score')
    /\ sa_i' = 0
    /\ nbr' = <<>>
    /\ sa_pc' = "loop"
    /\ UNCHANGED <<engineVars, evalVars, n_iter, n_restarts, hill_climb_passes, opt_pc,
                   restart, pass, global_best, global_best_score, improved,
                   restart_results>>

\* simulated_annealing returned (best, best_score): the rest of the restart
\* loop's body; the locals of the finished call are gone
PipeRestartEnd ==
    /\ opt_pc = "restarts"
    /\ sa_pc = "returned"
    /\ \E g \in {optimize_restart([global_best |-> global_best,
                                    global_best_score |-> global_best_score],
                                   best, best_score)} :
          /\ global_best' = g.global_best
          /\ global_best_score' = g.global_best_score
    /\ restart_results' = Append(restart_results, <<best, best_score>>)
    /\ restart' = restart + 1
    /\ sa_pc' = "idle"
    /\ sa_i' = 0
    /\ current' = <<>>
    /\ current_score' = 0
    /\ nbr' = <<>>
    /\ best' = <<>>
    /\ best_score' = 0
    /\ UNCHANGED <<engineVars, evalVars, n_iter, n_restarts, hill_climb_passes, opt_pc,
                   pass, improved, shuffle_scores>>

NextPipe ==
    \/ OptCall \/ PipeSACall \/ SASwap \/ SARelocate \/ SAReverse \/ SAReturn
    \/ PipeRestartEnd \/ OptRestartsDone \/ OptHillClimbPass \/ OptReturn

SpecPipe == InitOpt /\ [][NextPipe]_vars

(***************************************************************************)
(* Claims about the engine                                                 *)
(***************************************************************************)

\* C1: in every state reachable from reset() by advance, upgrade_creature and
\* upgrade_boost calls, every resource balance is >= 0.
C1_BalancesNonNegative ==
    \A r \in DOMAIN sim.resources : sim.resources[r] >= 0

\* An upgrade that cost two resources went through and spent one of them to 0.
C1_Witness ==
    /\ op = [name |-> "upgrade_creature", arg |-> "jingles"]
    /\ ret = "True"
    /\ sim.creature_levels["jingles"] = 2
    /\ \E r \in DOMAIN sim.resources : sim.resources[r] = 0

\* C2: an upgrade call whose cost is None or not affordable returns False and
\* leaves the whole economy state unchanged.
C2_FailedUpgradeChangesNothing ==
    [][ /\ op'.name = "upgrade_creature" =>
            LET cost == get_creature_upgrade_cost(sim, op'.arg) IN
            (cost = None \/ ~can_afford(sim, cost)) => (ret' = "False" /\ sim' = sim)
        /\ op'.name = "upgrade_boost" =>
            LET cost == get_boost_upgrade_cost(sim, op'.arg) IN
            (cost = None \/ ~can_afford(sim, cost)) => (ret' = "False" /\ sim' = sim)
      ]_vars

\* A purchasable but unaffordable upgrade was refused while the balances were
\* not all zero.
C2_Witness ==
    /\ op.name = "upgrade_creature"
    /\ ret = "False"
    /\ get_creature_upgrade_cost(sim, op.arg) # None
    /\ ~can_afford(sim, get_creature_upgrade_cost(sim, op.arg))
    /\ \E r \in DOMAIN sim.resources : sim.resources[r] > 0

\* C3: every creature's level is <= its maxLevel and every boost's level is
\* <= its maxLevel, also after upgrade calls made at max level.
C3_LevelsWithinMax ==
    /\ \A cid \in CreatureIds(sim.config) :
          sim.creature_levels[cid] <= CreatureDef(sim.config, cid).maxLevel
    /\ \A bid \in BoostIds(sim.config) :
          sim.boost_levels[bid] <= BoostDef(sim.config, bid).maxLevel

\* upgrade_boost was called on a boost at max level that the balances would
\* have paid for once more.
C3_Witness ==
    /\ op.name = "upgrade_boost"
    /\ ret = "False"
    /\ LET b == BoostDef(sim.config, op.arg) IN
         /\ sim.boost_levels[op.arg] = b.maxLevel
         /\ can_afford(sim, b.costs[b.maxLevel])

\* C4: a creature is locked exactly when its level is 0; reset() leaves a
\* default-unlocked creature unlocked at level 1 and any other locked at level
\* 0; the first successful upgrade_creature of a locked creature sets
\* unlocked and level = 1 in the same step.
C4_LockedIffLevelZero ==
    /\ [](\A cid \in CreatureIds(sim.config) :
            /\ ~sim.creature_unlocked[cid] <=> sim.creature_levels[cid] = 0
            /\ op.name \in {"__init__", "reset"} =>
                 LET d == CreatureDef(sim.config, cid).unlockedByDefault IN
                 /\ sim.creature_unlocked[cid] = d
                 /\ sim.creature_levels[cid] = IF d THEN 1 ELSE 0)
    /\ [][ \A cid \in CreatureIds(sim.config) :
             ( /\ ~sim.creature_unlocked[cid]
               /\ op' = [name |-> "upgrade_creature", arg |-> cid]
               /\ ret' = "True" )
             => (sim'.creature_unlocked[cid] /\ sim'.creature_levels[cid] = 1)
         ]_vars

\* A locked creature has just been unlocked.
C4_Witness ==
    /\ op = [name |-> "upgrade_creature", arg |-> "jingles"]
    /\ ret = "True"
    /\ sim.creature_unlocked["jingles"]
    /\ sim.creature_levels["jingles"] = 1

\* C12: no advance, upgrade_creature or upgrade_boost step lowers
\* total_damage, and the upgrade steps leave it unchanged.
C12_DamageNonDecreasing ==
    [][ /\ op'.name \in {"advance", "upgrade_creature", "upgrade_boost"} =>
             sim'.total_damage >= sim.total_damage
        /\ op'.name \in {"upgrade_creature", "upgrade_boost"} =>
             sim'.total_damage = sim.total_damage
      ]_vars

\* a damage boost was bought after damage had been dealt, and the economy
\* kept running: the last advance spawned at the boosted damage
C12_Witness ==
    /\ op.name = "advance"
    /\ sim.boost_levels["champion-damage"] = 1
    /\ sim.total_damage > 0
    /\ sim.total_damage % (5 * Pct) # 0

\* What the description of advance(delta) gives for one state, unit by unit:
\* a unit is active when it is unlocked with level >= 1
ActiveUnits(s) ==
    { i \in DOMAIN s.config.creatures :
        /\ s.creature_unlocked[s.config.creatures[i].id]
        /\ s.creature_levels[s.config.creatures[i].id] >= 1 }

\* eff = spawnTime * speed multiplier, in hundredths of a millisecond
EffectiveInterval(s, i) == s.config.creatures[i].spawnTime * get_speed_multiplier(s)

\* ticks = floor((progress + delta) / eff)
TicksOf(s, i, delta) ==
    (s.creature_progress[s.config.creatures[i].id] + delta * Pct) \div EffectiveInterval(s, i)

\* the sum of amount(i) * ticks(i) over a set of units, by kind of amount
RECURSIVE YieldOf(_, _, _, _)
YieldOf(s, units, delta, kind) ==
    IF units = {} THEN 0
    ELSE LET i == CHOOSE u \in units : TRUE
             c == s.config.creatures[i]
             lv == s.creature_levels[c.id]
             amount == IF kind = "damage"
                       THEN c.damageByLevel[lv] * get_damage_multiplier(s)
                       ELSE c.productionByLevel[lv] + get_production_bonus(s, c.produces)
         IN amount * TicksOf(s, i, delta) + YieldOf(s, units \ {i}, delta, kind)

ExpectedAdvance(s, delta) ==
    [s EXCEPT
        !.creature_progress = [cid \in DOMAIN s.creature_progress |->
            IF \E i \in ActiveUnits(s) : s.config.creatures[i].id = cid
            THEN LET i == CHOOSE u \in ActiveUnits(s) : s.config.creatures[u].id = cid
                 IN s.creature_progress[cid] + delta * Pct
                      - TicksOf(s, i, delta) * EffectiveInterval(s, i)
            ELSE s.creature_progress[cid]],
        !.resources = [r \in DOMAIN s.resources |->
            s.resources[r]
              + YieldOf(s, { i \in ActiveUnits(s) : s.config.creatures[i].produces = r },
                        delta, "production")],
        !.total_damage = @ + YieldOf(s, ActiveUnits(s), delta, "damage"),
        !.time_elapsed_ms = @ + delta]

\* C17: advance(delta) moves every active unit on its own by
\* ticks = floor((progress + delta) / eff): the accumulator keeps the
\* remainder (0 <= accumulator < eff), the produced resource and the damage
\* grow by their per-tick amounts times ticks, locked units, levels and the
\* other resources stay, and the elapsed time grows by delta.
C17_AdvanceArithmetic ==
    [][ op'.name = "advance" =>
          \E delta \in 1..MaxDelta :
              /\ op'.arg = ToString(delta)
              /\ sim' = ExpectedAdvance(sim, delta)
              /\ \A i \in ActiveUnits(sim) :
                    /\ sim'.creature_progress[sim.config.creatures[i].id] >= 0
                    /\ sim'.creature_progress[sim.config.creatures[i].id]
                          < EffectiveInterval(sim, i)
      ]_vars

\* an advance by 3 ms in which jingles (spawnTime 2 ms, never sped up) spawned
\* twice: one spawn would have left an accumulator of 1 ms or more
C17_Witness ==
    /\ op = [name |-> "advance", arg |-> ToString(3)]
    /\ sim.creature_levels["jingles"] >= 1
    /\ sim.boost_levels["champion-speed"] = 0
    /\ sim.creature_progress["jingles"] < Pct
    /\ sim.resources["emeralds"] >= 2

\* C14: a call of _score_upgrade, for any creature or boost, leaves the
\* simulation it was given as it was: resources, levels, unlocked flags,
\* boost levels, progress accumulators, elapsed time and total damage.
C14_ScoringLeavesStateAlone ==
    [][ op'.name = "_score_upgrade" =>
          /\ sim'.resources = sim.resources
          /\ sim'.creature_levels = sim.creature_levels
          /\ sim'.creature_unlocked = sim.creature_unlocked
          /\ sim'.boost_levels = sim.boost_levels
          /\ sim'.creature_progress = sim.creature_progress
          /\ sim'.time_elapsed_ms = sim.time_elapsed_ms
          /\ sim'.total_damage = sim.total_damage
          /\ sim' = sim
      ]_vars

\* the unlock of jingles was affordable and has been scored on the copy
\* (the call returned a number); jingles is still locked and the resources
\* that would have paid for it are still there
C14_Witness ==
    /\ op = [name |-> "_score_upgrade", arg |-> "jingles"]
    /\ ret # "None"
    /\ ~sim.creature_unlocked["jingles"]
    /\ sim.creature_progress["fiona"] > 0
    /\ can_afford(sim, get_creature_upgrade_cost(sim, "jingles"))

\* the place of a key in configuration order: creatures first, then boosts
ConfigRank(config, key) ==
    IF key[1] = "creature"
    THEN CHOOSE i \in DOMAIN config.creatures : config.creatures[i].id = key[2]
    ELSE Len(config.creatures)
           + (CHOOSE i \in DOMAIN config.boosts : config.boosts[i].id = key[2])

\* the number of steps build_template owes a key
StepsOwed(config, key) ==
    IF key[1] = "creature"
    THEN LET c == CreatureDef(config, key[2])
         IN IF c.unlockedByDefault THEN c.maxLevel - 1 ELSE c.maxLevel
    ELSE BoostDef(config, key[2]).maxLevel

\* C21: the list build_template returns holds, for every creature,
\* maxLevel - 1 steps when it is unlocked by default and maxLevel steps
\* otherwise, for every boost maxLevel steps, and nothing else, laid out in
\* configuration order: creature by creature, then boost by boost.
C21_TemplateCountsAndOrder ==
    ev_pc = "template" =>
        /\ \A k \in DOMAIN priority :
              priority[k] \in { <<"creature", cid>> : cid \in CreatureIds(sim.config) }
                               \cup { <<"boost", bid>> : bid \in BoostIds(sim.config) }
        /\ \A cid \in CreatureIds(sim.config) :
              CountOf(priority, <<"creature", cid>>) = StepsOwed(sim.config, <<"creature", cid>>)
        /\ \A bid \in BoostIds(sim.config) :
              CountOf(priority, <<"boost", bid>>) = StepsOwed(sim.config, <<"boost", bid>>)
        /\ \A k \in DOMAIN priority : \A l \in DOMAIN priority :
              k < l => ConfigRank(sim.config, priority[k]) <= ConfigRank(sim.config, priority[l])

\* a template built for a configuration in which the first creature is
\* locked at the start and the second one unlocked by default, with
\* different maxLevel values
C21_Witness ==
    /\ ev_pc = "template"
    /\ ~sim.config.creatures[1].unlockedByDefault
    /\ sim.config.creatures[2].unlockedByDefault
    /\ sim.config.creatures[1].maxLevel = 2
    /\ sim.config.creatures[2].maxLevel = MaxTemplateLevel
    /\ Len(priority) >= 6

\* C10: the speed multiplier is strictly positive at every reachable boost
\* level, a configuration whose speed bonus reaches 1.0 being rejected or
\* clamped before any step runs.
C10_SpeedMultiplierPositive ==
    get_speed_multiplier(sim) > 0

(***************************************************************************)
(* Claims about simulate                                                   *)
(***************************************************************************)

BaselineDamage ==
    LET cs == EVENT_CONFIG.creatures
        RECURSIVE Sum(_)
        Sum(i) == IF i > Len(cs) THEN 0
                  ELSE (IF cs[i].unlockedByDefault
                        THEN (EVENT_CONFIG.duration \div cs[i].spawnTime) * cs[i].damageByLevel[1]
                        ELSE 0) + Sum(i + 1)
    IN Sum(1) * Pct

\* C6: with no purchase during the whole event, the damage returned is the
\* sum over default-unlocked creatures of floor(duration / spawnTime) *
\* damageByLevel[0]; the other creatures stay locked and produce nothing.
C6_BaselineDamage ==
    ( /\ ev_pc = "returned"
      /\ \A k \in 1..Len(trace[call]) : trace[call][k][1] = NoKey )
    => /\ results[call] = BaselineDamage
       /\ sim.total_damage = BaselineDamage
       /\ \A i \in DOMAIN EVENT_CONFIG.creatures :
            LET c == EVENT_CONFIG.creatures[i] IN
            ~c.unlockedByDefault =>
               /\ sim.creature_levels[c.id] = 0
               /\ sim.creature_progress[c.id] = 0
               /\ ~sim.creature_unlocked[c.id]

\* simulate returned from a whole event on the empty ordering.
C6_Witness ==
    /\ ev_pc = "returned"
    /\ priority = <<>>
    /\ sim.time_elapsed_ms >= EVENT_CONFIG.duration
    /\ results[call] > 0

\* C13: every decision tick strictly increases the elapsed time, and every
\* run of simulate that has started returns, whatever the ordering and
\* whatever is purchased on the way.
C13_SimulateTerminates ==
    /\ [][(ev_pc = "advance" /\ ev_pc' = "loop") =>
             sim'.time_elapsed_ms > sim.time_elapsed_ms]_vars
    /\ [][(ev_pc = "loop" /\ ev_pc' # "returned") => ev_pc' \in {"loop", "advance"}]_vars
    /\ (ev_pc \in {"loop", "advance"}) ~> (ev_pc = "returned")

\* the first call, on a full ordering, has returned after DurationSteps
\* ticks, some of which purchased a step and some of which could not
C13_Witness ==
    /\ ev_pc = "returned"
    /\ call = 1
    /\ Len(trace[1]) = DurationSteps
    /\ priority \in TemplatePermutations
    /\ \E k \in DOMAIN trace[1] : trace[1][k][1] # NoKey
    /\ \E k \in DOMAIN trace[1] : trace[1][k][1] = NoKey

\* the keys that still have an unconsumed step in seq and whose current cost
\* can_afford accepts
AffordableKeys(s, seq, cnts) ==
    { key \in DOMAIN cnts :
        /\ cnts[key] < Len(_build_pos_map(seq)[key])
        /\ can_afford(s, UpgradeCost(s, key)) }

\* the ordering position of the next unconsumed step of key
NextPosition(seq, cnts, key) == _build_pos_map(seq)[key][cnts[key] + 1]

\* C15: at every decision the evaluator purchases the key, among those with
\* an unconsumed step and a cost that can_afford accepts (the empty cost
\* included), whose next position in the ordering is smallest, and
\* purchases nothing when there is no such key.
C15_EarliestAffordableIsBought ==
    [][ (ev_pc = "loop" /\ ev_pc' = "advance") =>
          LET A == AffordableKeys(sim, priority, counts) IN
          IF A = {} THEN bought' = NoKey
          ELSE /\ bought' \in A
               /\ \A key \in A : NextPosition(priority, counts, bought')
                                     <= NextPosition(priority, counts, key)
               /\ counts' = [counts EXCEPT ![bought'] = @ + 1]
      ]_vars

\* the number of purchases an engine state holds: the sum of all levels
RECURSIVE SumOf(_, _)
SumOf(f, S) ==
    IF S = {} THEN 0
    ELSE LET x == CHOOSE y \in S : TRUE IN f[x] + SumOf(f, S \ {x})

LevelSum(s) ==
    SumOf(s.creature_levels, DOMAIN s.creature_levels)
        + SumOf(s.boost_levels, DOMAIN s.boost_levels)

\* C16: a decision tick makes at most one purchase (exactly one when it
\* selects a key, none otherwise) before the clock moves; it is followed by
\* exactly one advance(STEP_MS), which purchases nothing; then the next tick
\* or the return.
C16_OnePurchaseThenAdvance ==
    [][ /\ ev_pc = "loop" =>
             \/ /\ ev_pc' = "returned"
                /\ sim' = sim
             \/ /\ ev_pc' = "advance"
                /\ sim'.time_elapsed_ms = sim.time_elapsed_ms
                /\ LevelSum(sim') - LevelSum(sim) = (IF bought' = NoKey THEN 0 ELSE 1)
                /\ bought' = NoKey => sim' = sim
        /\ ev_pc = "advance" =>
             /\ ev_pc' = "loop"
             /\ sim'.time_elapsed_ms = sim.time_elapsed_ms + STEP_MS
             /\ LevelSum(sim') = LevelSum(sim)
             /\ Len(trace'[call]) = Len(trace[call]) + 1
      ]_vars

\* a tick has purchased one key while another key with a step left was
\* affordable too, and still is after the purchase
C16_Witness ==
    /\ ev_pc = "advance"
    /\ bought # NoKey
    /\ \E key \in DOMAIN counts :
          /\ key # bought
          /\ counts[key] < CountOf(priority, key)
          /\ can_afford(sim, UpgradeCost(sim, key))

\* the level a key has in s, the level it starts at, and its maxLevel
LevelOf(s, key) ==
    IF key[1] = "creature" THEN s.creature_levels[key[2]] ELSE s.boost_levels[key[2]]

StartLevel(config, key) ==
    IF key[1] = "creature" /\ CreatureDef(config, key[2]).unlockedByDefault THEN 1 ELSE 0

MaxLevelOf(config, key) ==
    IF key[1] = "creature" THEN CreatureDef(config, key[2]).maxLevel
    ELSE BoostDef(config, key[2]).maxLevel

\* C26: while simulate runs, the number of consumed steps of every key is
\* its level minus the level it started at; an upgrade the evaluator issues
\* returns True; and in an ordering that is a permutation of the template a
\* key whose steps are all consumed is at its maxLevel.
C26_CountsFollowLevels ==
    ev_pc \in {"loop", "advance", "returned"} =>
        /\ \A key \in DOMAIN counts :
              counts[key] = LevelOf(sim, key) - StartLevel(sim.config, key)
        /\ (ev_pc = "advance" /\ bought # NoKey) => ret = "True"
        /\ priority \in TemplatePermutations =>
              \A key \in DOMAIN counts :
                  counts[key] = CountOf(priority, key) =>
                      LevelOf(sim, key) = MaxLevelOf(sim.config, key)

\* in a run on a permutation of the template a tick has just bought the
\* last step of a key, which is now at its maxLevel, while another key has
\* steps left
C26_Witness ==
    /\ ev_pc = "advance"
    /\ priority \in TemplatePermutations
    /\ bought # NoKey
    /\ counts[bought] = CountOf(priority, bought)
    /\ LevelOf(sim, bought) = MaxLevelOf(sim.config, bought)
    /\ \E key \in DOMAIN counts : counts[key] < CountOf(priority, key)

\* the number of decision ticks whose step intervals first cover duration
TicksToCover(duration) ==
    CHOOSE m \in 0..duration : m * STEP_MS >= duration /\ (m - 1) * STEP_MS < duration

\* s after the purchase of key, if any
AfterPurchase(s, key) ==
    IF key = NoKey THEN s
    ELSE IF key[1] = "creature" THEN upgrade_creature(s, key[2]).sim
    ELSE upgrade_boost(s, key[2]).sim

RatLeq(x, y) == x.num * y.den <= y.num * x.den

\* the entries of log that record a purchase of key
EntriesOf(entries, key) ==
    { i \in DOMAIN entries :
        \E lv \in 1..MaxLevelOf(EVENT_CONFIG, key) :
            entries[i].action = Label(key[1], NameOf(key[2]), lv) }

\* C25: on every ordering simulate_with_log returns the damage simulate
\* returns and the final state simulate ends in; its log has, for every
\* decision tick of simulate that bought a key, exactly one entry, stamped
\* with that tick's time and naming that key and its new level, and no
\* entry for a tick that bought nothing; the entries are in non-decreasing
\* time order; and every level of the returned state is the starting level
\* plus the number of entries of that key.
C25_WithLogEquivalent ==
    ev_pc = "logged" =>
        LET r == results[Len(results)]
            ticks == trace[call]
            bought_at == { k \in DOMAIN ticks : ticks[k][1] # NoKey }
        IN  /\ r.damage = results[call]
            /\ r.damage = simulate(priority)
            /\ r.sim = sim
            /\ Len(r.log) = Cardinality(bought_at)
            /\ \A k \in DOMAIN ticks :
                  LET at == { i \in DOMAIN r.log :
                                r.log[i].time_h = Rat((k - 1) * STEP_MS, MS_PER_HOUR) }
                      key == ticks[k][1]
                  IN IF key = NoKey THEN at = {}
                     ELSE /\ Cardinality(at) = 1
                          /\ \A i \in at :
                                r.log[i].action =
                                    Label(key[1], NameOf(key[2]), LevelOf(ticks[k][2], key))
            /\ \A i, j \in DOMAIN r.log :
                  i <= j => RatLeq(r.log[i].time_h, r.log[j].time_h)
            /\ \A key \in AllKeys :
                  LevelOf(r.sim, key) =
                      StartLevel(EVENT_CONFIG, key) + Cardinality(EntriesOf(r.log, key))

\* both have run on a permutation of the template; the log has an unlock, an
\* upgrade of a creature and a boost, and some tick bought nothing
C25_Witness ==
    /\ ev_pc = "logged"
    /\ priority \in TemplatePermutations
    /\ LET entries == results[Len(results)].log
       IN  /\ \E i \in DOMAIN entries : entries[i].action = "Unlock Jingles"
           /\ \E i \in DOMAIN entries : entries[i].action = "Upgrade Feral Fiona -> Lv2"
           /\ \E i \in DOMAIN entries : entries[i].action = "Buy Sapphire Boost Lv1"
    /\ \E k \in DOMAIN trace[call] : trace[call][k][1] = NoKey

\* the items whose purchase would succeed in s
Qualifying(s) ==
    { key \in { ConfigKeys(s.config)[i] : i \in DOMAIN ConfigKeys(s.config) } :
        UpgradeKey(s, key).ret }

\* the marginal-value score run_greedy gives a qualifying item in s
MarginalValue(s, key) ==
    _score_upgrade(s, key[1], key[2], s.config.duration - s.time_elapsed_ms).ret

\* C22: a decision tick of run_greedy buys nothing when no item qualifies;
\* otherwise it buys exactly one qualifying item, one no qualifying item
\* outscores, and of the items with that score the first in configuration
\* order (creatures before boosts), and logs it; then the clock advances by
\* the fixed step, with no purchase, whatever the tick bought.
C22_GreedyBuysBest ==
    [][ /\ (ev_pc = "loop" /\ ev_pc' = "advance") =>
              IF Qualifying(sim) = {}
              THEN bought' = NoKey /\ sim' = sim /\ log' = log
              ELSE /\ bought' \in Qualifying(sim)
                   /\ \A key \in Qualifying(sim) :
                         /\ RatLeq(MarginalValue(sim, key), MarginalValue(sim, bought'))
                         /\ MarginalValue(sim, key) = MarginalValue(sim, bought') =>
                               ConfigRank(sim.config, bought') <= ConfigRank(sim.config, key)
                   /\ sim' = UpgradeKey(sim, bought').sim
                   /\ LevelSum(sim') = LevelSum(sim) + 1
                   /\ Len(log') = Len(log) + 1
                   /\ sim'.time_elapsed_ms = sim.time_elapsed_ms
        /\ ev_pc = "advance" =>
              /\ ev_pc' = "loop"
              /\ sim' = advance(sim, GREEDY_STEP_MS).sim
              /\ sim'.time_elapsed_ms = sim.time_elapsed_ms + GREEDY_STEP_MS
              /\ LevelSum(sim') = LevelSum(sim)
              /\ log' = log ]_vars

\* the state a decision tick of run_greedy started from, read from trace
TickStart ==
    IF trace[call] = <<>> THEN GameSim(sim.config)
    ELSE trace[call][Len(trace[call])][2]

\* a tick has bought an item although an item earlier in configuration
\* order qualified as well, with a lower score
C22_Witness ==
    /\ ev_pc = "advance"
    /\ call = 1
    /\ bought # NoKey
    /\ \E key \in Qualifying(TickStart) :
          /\ ConfigRank(sim.config, key) < ConfigRank(sim.config, bought)
          /\ ~RatLeq(MarginalValue(TickStart, bought), MarginalValue(TickStart, key))

(***************************************************************************)
(* Claims about simulated_annealing                                        *)
(***************************************************************************)
\* seq has the template's length and, for every key, the template's number
\* of steps
IsTemplatePermutation(seq) ==
    /\ Len(seq) = Len(build_template)
    /\ \A i \in DOMAIN seq : seq[i] \in AllKeys
    /\ \A key \in AllKeys : CountOf(seq, key) = CountOf(build_template, key)

\* C7: swap, relocate and reverse-slice yield a permutation of the ordering
\* they are applied to: once simulated_annealing has shuffled the template,
\* current, the candidate of the last iteration and best-ever each have the
\* template's length and the template's number of steps for every key.
C7_PerturbationsPermute ==
    sa_pc # "idle" =>
        /\ IsTemplatePermutation(current)
        /\ IsTemplatePermutation(best)
        /\ sa_i > 0 => IsTemplatePermutation(nbr)

\* an iteration has accepted a candidate that differs from the ordering it
\* started from and scores below it: current is the candidate, best is not
C7_Witness ==
    /\ sa_pc = "returned"
    /\ sa_i > 0
    /\ nbr = current
    /\ current # best
    /\ current_score < best_score

C23_RelocateMoves ==
    [][ op'.name = "relocate" =>
          \E a \in 0..(Len(current) - 1), b \in 0..(Len(current) - 2) :
              /\ op'.arg = RandomNumbers(a, b)
              /\ nbr'[a + 1] # current[a + 1]
      ]_vars

\* seq with the m elements from index s (0-based) on in reverse order
WithReversed(seq, s, m) ==
    [i \in DOMAIN seq |-> IF s + 1 <= i /\ i <= s + m THEN seq[2 * s + m + 1 - i] ELSE seq[i]]

\* C24: reverse turns around one contiguous slice of 2 to 8 elements and
\* leaves every element outside it in place, whatever the random start index
\* and length are, start indices near the end of the list included.
C24_ReverseSliceLength ==
    [][ op'.name = "reverse" =>
          \E s \in 0..(Len(current) - 1), m \in 2..8 :
              /\ s + m <= Len(current)
              /\ nbr' = WithReversed(current, s, m)
      ]_vars

(***************************************************************************)
(* Claims about optimize                                                   *)
(***************************************************************************)
\* some single swap of seq scores strictly higher than seq
SomeSwapImproves(seq) ==
    \E a \in 0..(Len(seq) - 1), b \in 0..(Len(seq) - 1) :
        a < b /\ Score(Swap(seq, a, b)) > Score(seq)

\* C8: in the hill-climb phase of optimize at most hill_climb_passes passes
\* run, a pass never lowers the tracked best score, a pass reports no
\* improvement exactly when no single swap improves the score, and no pass
\* runs after one that reported no improvement.
C8_HillClimbPhase ==
    /\ [](pass <= hill_climb_passes)
    /\ [](improved = "False" => opt_pc \in {"break", "returned"})
    /\ [][pass' = pass + 1 =>
            /\ improved # "False"
            /\ global_best_score' >= global_best_score
            /\ global_best # NoOrdering =>
                 /\ improved' = Bool(SomeSwapImproves(global_best))
                 /\ improved' = "True" => global_best_score' > global_best_score
                 /\ improved' = "False" => global_best' = global_best
                 /\ global_best_score' = Score(global_best')]_vars

\* optimize has returned before using up its passes: the first pass improved
\* the score, the second found no improving swap
C8_Witness ==
    /\ opt_pc = "returned"
    /\ improved = "False"
    /\ pass = 2
    /\ pass < hill_climb_passes

\* the scores of all the orderings one swap of two positions i < j away
SwapScores(seq) ==
    { Score(Swap(seq, p[1], p[2])) :
        p \in { q \in (0..(Len(seq) - 1)) \X (0..(Len(seq) - 1)) : q[1] < q[2] } }

BestSwapScore(seq) ==
    CHOOSE m \in SwapScores(seq) : \A x \in SwapScores(seq) : m >= x

C28_ReturnedPairConsistent ==
    n_restarts >= 1 =>
        /\ opt_pc # "TypeError"
        /\ opt_pc \in {"returned", "replayed"} =>
              /\ global_best \in TemplatePermutations
              /\ global_best_score = simulate(global_best)
        /\ opt_pc = "replayed" =>
              /\ results[Len(results)].damage = global_best_score
              /\ Len(results[Len(results)].log) >= 1

\* the ordering returned after one improving hill-climb pass has been
\* replayed; it is not the template as built
C28_Witness ==
    /\ opt_pc = "replayed"
    /\ n_restarts >= 1
    /\ pass >= 1
    /\ global_best # build_template
    /\ results[Len(results)].damage = global_best_score
    /\ results[Len(results)].damage > Score(build_template)

\* C9: a call with an iteration count of zero or a restart count that is zero
\* or negative is rejected on entry: it never gets past the call (to return
\* an ordering, or to fail inside the hill-climb phase).
C9_InvalidParametersRejected ==
    (n_iter <= 0 \/ n_restarts <= 0) => opt_pc \in {"idle", "ValueError"}

\* C20: once the restart loop of optimize has run at least one restart, the
\* global best score is the largest score a restart returned and the global
\* best ordering is the ordering a restart returned with that score.
C20_GlobalBestIsBestRestart ==
    (opt_pc = "hill" /\ Len(restart_results) >= 1) =>
        /\ \A k \in DOMAIN restart_results : global_best_score >= restart_results[k][2]
        /\ \E k \in DOMAIN restart_results :
              restart_results[k] = <<global_best, global_best_score>>

====
